---------------------------- MODULE Spec2Model ----------------------------
(***************************************************************************)
(* A model of states.SyncState (internal/states/sync.go): the reader/      *)
(* writer-lock guarded facade over the state tree of modules, resources,   *)
(* resource instances, output values and local values.                     *)
(*                                                                         *)
(* The facade methods are translated from sync.go.  The tree primitives    *)
(* they delegate to (methods of State, Module and ResourceInstance) are    *)
(* not part of the excerpt; they are written from section 4.1 of the       *)
(* specification and carry the receiver as a prefix (State_, Module_,      *)
(* ResourceInstance_).                                                     *)
(*                                                                         *)
(* Two specifications:                                                     *)
(*   Spec      one facade call per step, each executed as a whole;         *)
(*   SpecConc  several callers, the lock, and each call's critical         *)
(*             section taken one statement at a time.                      *)
(***************************************************************************)
EXTENDS Naturals, FiniteSets, Sequences, TLC

\* ------------------------------------------------------------------ bounds

\* Largest number of leaves (generation objects, output values, local
\* values, instance-less resources) a tree may hold; writes that would
\* exceed it are not issued.
MaxLeaves == 2

\* Largest number of leaves of a tree on which Close is issued in SpecClose.
MaxLeavesAtClose == 1

\* Largest number of leaves of a tree in SpecChecks.
MaxLeavesWithChecks == 1

\* Number of concurrent callers in SpecConc.
NumCallers == 2

\* --------------------------------------------------------------- addresses

RootModuleInstance == <<>>
ChildModuleInstance == <<"child">>
\* A second child, used only as the far end of a module move.
OtherModuleInstance == <<"other">>
ModuleAddrs == {RootModuleInstance, ChildModuleInstance}
AllModuleAddrs == ModuleAddrs \cup {OtherModuleInstance}

IsRoot(addr) == addr = RootModuleInstance

ResourceNames == {"a"}
InstanceKeys == {0, 1}
OutputNames == {"out"}
LocalNames == {"loc"}

\* addrs.AbsResource and addrs.AbsResourceInstance
AbsOutputValues == [Module : ModuleAddrs, Name : OutputNames]
AbsLocalValues == [Module : ModuleAddrs, Name : LocalNames]
AbsResources == [Module : ModuleAddrs, Resource : ResourceNames]
\* The root module's resource has two instances (count = 2), a child
\* module's resource has one.
InstanceKeysOf(module) == IF IsRoot(module) THEN InstanceKeys ELSE {0}
AbsResourceInstances ==
    { a \in [Module : ModuleAddrs, Resource : ResourceNames, Key : InstanceKeys] :
        a.Key \in InstanceKeysOf(a.Module) }

ContainingResource(addr) == [Module |-> addr.Module, Resource |-> addr.Resource]

\* ------------------------------------------------------------------ values

\* DeposedKey; NotDeposed is the sentinel.
NotDeposed == ""
DeposedKeys == {"d1", "d2"}

ObjectReady == "ready"
ObjectPlanned == "planned"

\* *ResourceInstanceObjectSrc; NilObject is the nil pointer.
NilObject == [Status |-> "nil", Attrs |-> 0]
Objects ==
    { [Status |-> ObjectReady, Attrs |-> 1],
      [Status |-> ObjectPlanned, Attrs |-> 2] }

Providers == {"p1", "p2"}
\* addrs.InstanceKey of the provider; addrs.NoKey is "no key".
NoKey == "NoKey"
ProviderKeys == {NoKey}

\* OutputValue: value, sensitivity flag, deprecation message.
OutputValues ==
    { [Value |-> "x", Sensitive |-> FALSE, Deprecated |-> ""],
      [Value |-> "y", Sensitive |-> TRUE, Deprecated |-> "old"] }
LocalValueSet == {"v"}

\* ------------------------------------------------------------ finite maps

EmptyMap == << >>
Put(f, k, v) == (k :> v) @@ f

RECURSIVE Restrict(_, _)
Restrict(f, D) ==
    IF D = {} THEN EmptyMap
    ELSE LET x == CHOOSE y \in D : TRUE
         IN  (x :> f[x]) @@ Restrict(f, D \ {x})

Del(f, k) == Restrict(f, (DOMAIN f) \ {k})

\* ------------------------------------------------------- the tree (4.1)

NewResourceInstance == [Current |-> NilObject, Deposed |-> EmptyMap]
NewResource(provider) ==
    [ProviderConfig |-> provider, ProviderKey |-> NoKey, Instances |-> EmptyMap]
NewModule == [Resources |-> EmptyMap, OutputValues |-> EmptyMap, LocalValues |-> EmptyMap]

\* *CheckResults: nil, or the snapshot that NewCheckResults builds from a
\* checks.State (per checkable object its status; the snapshot records the
\* status of each object under ConfigResults).
NilCheckResults == [nil |-> TRUE]
CheckNames == {"c1", "c2"}
CheckStatuses == {"pass", "fail"}
CheckStates == UNION {[D -> CheckStatuses] : D \in SUBSET CheckNames}
NewCheckResults(checkState) ==
    [nil |-> FALSE,
     ConfigResults |-> [n \in DOMAIN checkState |-> [Status |-> checkState[n]]]]

\* NewState: only the root module, no check results.
NewState ==
    [Modules |-> Put(EmptyMap, RootModuleInstance, NewModule),
     CheckResults |-> NilCheckResults]

ResourceInstance_HasObjects(is) == is.Current # NilObject \/ DOMAIN is.Deposed # {}

Module_empty(ms) ==
    /\ DOMAIN ms.Resources = {}
    /\ DOMAIN ms.OutputValues = {}
    /\ DOMAIN ms.LocalValues = {}

State_HasModule(s, addr) == addr \in DOMAIN s.Modules

State_EnsureModule(s, addr) ==
    IF State_HasModule(s, addr) THEN s
    ELSE [s EXCEPT !.Modules = Put(s.Modules, addr, NewModule)]

\* The root module always keeps its entry.
State_RemoveModule(s, addr) ==
    IF IsRoot(addr) THEN s
    ELSE [s EXCEPT !.Modules = Del(s.Modules, addr)]

\* The tree with the module at addr (which is tracked) replaced by ms: the
\* effect of mutating through the *Module pointer.
WithModule(s, addr, ms) == [s EXCEPT !.Modules = Put(s.Modules, addr, ms)]

Module_HasResource(ms, res) == res \in DOMAIN ms.Resources
Module_HasInstance(ms, res, key) ==
    /\ Module_HasResource(ms, res)
    /\ key \in DOMAIN ms.Resources[res].Instances

Module_SetOutputValue(ms, name, ov) ==
    [ms EXCEPT !.OutputValues = Put(ms.OutputValues, name, ov)]
Module_RemoveOutputValue(ms, name) ==
    [ms EXCEPT !.OutputValues = Del(ms.OutputValues, name)]
Module_SetLocalValue(ms, name, v) ==
    [ms EXCEPT !.LocalValues = Put(ms.LocalValues, name, v)]
Module_RemoveLocalValue(ms, name) ==
    [ms EXCEPT !.LocalValues = Del(ms.LocalValues, name)]

\* Creates the resource record when untracked, else updates its provider.
Module_SetResourceProvider(ms, res, provider) ==
    IF Module_HasResource(ms, res)
    THEN [ms EXCEPT !.Resources[res].ProviderConfig = provider]
    ELSE [ms EXCEPT !.Resources = Put(ms.Resources, res, NewResource(provider))]

Module_RemoveResource(ms, res) == [ms EXCEPT !.Resources = Del(ms.Resources, res)]

\* Mutant of Module_cleanup: an instance without objects stays.
Module_cleanup_keepsInstance(ms, res, key) ==
    IF DOMAIN ms.Resources[res].Instances = {}
    THEN [ms EXCEPT !.Resources = Del(ms.Resources, res)]
    ELSE ms

\* Mutant of Module_cleanup: the resource stays when its last instance goes.
Module_cleanup_keepsResource(ms, res, key) ==
    LET rs == ms.Resources[res]
    IN  IF key \in DOMAIN rs.Instances /\ ~ResourceInstance_HasObjects(rs.Instances[key])
        THEN [ms EXCEPT !.Resources[res].Instances = Del(rs.Instances, key)]
        ELSE ms

\* Drops the instance if it has no object left, then the resource if it has
\* no instance left.
Module_cleanup(ms, res, key) ==
    LET rs == ms.Resources[res]
        insts == IF key \in DOMAIN rs.Instances
                    /\ ~ResourceInstance_HasObjects(rs.Instances[key])
                 THEN Del(rs.Instances, key) ELSE rs.Instances
    IN  IF DOMAIN insts = {}
        THEN [ms EXCEPT !.Resources = Del(ms.Resources, res)]
        ELSE [ms EXCEPT !.Resources[res].Instances = insts]


\* Results of a primitive that may fail loudly (a fatal programming error).
Done(ms) == [ms |-> ms, panic |-> FALSE]
Fatal(ms) == [ms |-> ms, panic |-> TRUE]

\* Ensures the resource and the instance, as the writes below do first.
Module_EnsureInstance(ms, res, key, provider) ==
    LET ms1 == IF Module_HasResource(ms, res) THEN ms
               ELSE Module_SetResourceProvider(ms, res, provider)
    IN  IF key \in DOMAIN ms1.Resources[res].Instances THEN ms1
        ELSE [ms1 EXCEPT !.Resources[res].Instances =
                  Put(ms1.Resources[res].Instances, key, NewResourceInstance)]

\* Mutant of Module_SetResourceInstanceCurrent: a resource that is tracked
\* keeps the provider it has.
Module_SetResourceInstanceCurrent_keepsProvider(ms, res, key, obj, provider, providerKey) ==
    LET ms1 == Module_EnsureInstance(ms, res, key, provider)
        ms2 == [ms1 EXCEPT !.Resources[res].Instances[key].Current = obj]
    IN  Module_cleanup(ms2, res, key)

\* The central mutation.  obj = NilObject removes the current generation, any
\* other obj replaces it; the provider configuration and provider key of the
\* whole resource are updated; an instance left without objects is deleted
\* and so is a resource left without instances.
Module_SetResourceInstanceCurrent(ms, res, key, obj, provider, providerKey) ==
    LET ms1 == Module_EnsureInstance(ms, res, key, provider)
        ms2 == [ms1 EXCEPT !.Resources[res].ProviderConfig = provider,
                           !.Resources[res].ProviderKey = providerKey,
                           !.Resources[res].Instances[key].Current = obj]
    IN  Module_cleanup(ms2, res, key)

\* The same for a deposed generation; the resource must already be tracked.
Module_SetResourceInstanceDeposed(ms, res, key, dk, obj, provider, providerKey) ==
    IF ~Module_HasResource(ms, res) THEN Fatal(ms)
    ELSE
      LET ms1 == Module_EnsureInstance(ms, res, key, provider)
          dep == ms1.Resources[res].Instances[key].Deposed
          ms2 == [ms1 EXCEPT !.Resources[res].ProviderConfig = provider,
                             !.Resources[res].ProviderKey = providerKey,
                             !.Resources[res].Instances[key].Deposed =
                                 IF obj = NilObject THEN Del(dep, dk) ELSE Put(dep, dk, obj)]
      IN  Done(Module_cleanup(ms2, res, key))

Module_ForgetResourceInstanceAll(ms, res, key) ==
    IF ~Module_HasInstance(ms, res, key) THEN ms
    ELSE Module_cleanup(
           [ms EXCEPT !.Resources[res].Instances = Del(ms.Resources[res].Instances, key)],
           res, key)

Module_ForgetResourceInstanceDeposed(ms, res, key, dk) ==
    IF ~Module_HasInstance(ms, res, key) THEN ms
    ELSE Module_cleanup(
           [ms EXCEPT !.Resources[res].Instances[key].Deposed =
                        Del(ms.Resources[res].Instances[key].Deposed, dk)],
           res, key)

\* DeposeCurrentObject.  fresh is the key the allocator yields when forcedKey
\* is the sentinel.  [ms, ret, panic]
Module_deposeResourceInstanceObject(ms, res, key, forcedKey, fresh) ==
    IF ~Module_HasInstance(ms, res, key)
    THEN [ms |-> ms, ret |-> NotDeposed, panic |-> FALSE]
    ELSE
      LET is == ms.Resources[res].Instances[key]
          dk == IF forcedKey = NotDeposed THEN fresh ELSE forcedKey
      IN  IF is.Current = NilObject
          THEN [ms |-> ms, ret |-> NotDeposed, panic |-> FALSE]
          ELSE IF forcedKey # NotDeposed /\ forcedKey \in DOMAIN is.Deposed
          THEN [ms |-> ms, ret |-> NotDeposed, panic |-> TRUE]
          ELSE [ms |-> [ms EXCEPT !.Resources[res].Instances[key] =
                           [Current |-> NilObject, Deposed |-> Put(is.Deposed, dk, is.Current)]],
                ret |-> dk, panic |-> FALSE]

\* Mutant of Module_maybeRestoreResourceInstanceDeposed: the object is made
\* current and stays in the deposed set as well.
Module_maybeRestoreResourceInstanceDeposed_copies(ms, res, key, dk) ==
    IF ~Module_HasInstance(ms, res, key) THEN [ms |-> ms, ret |-> FALSE]
    ELSE
      LET is == ms.Resources[res].Instances[key]
      IN  IF is.Current # NilObject \/ dk \notin DOMAIN is.Deposed
          THEN [ms |-> ms, ret |-> FALSE]
          ELSE [ms |-> [ms EXCEPT !.Resources[res].Instances[key].Current = is.Deposed[dk]],
                ret |-> TRUE]

\* MaybeRestoreDeposedAsCurrent.  [ms, ret]
Module_maybeRestoreResourceInstanceDeposed(ms, res, key, dk) ==
    IF ~Module_HasInstance(ms, res, key) THEN [ms |-> ms, ret |-> FALSE]
    ELSE
      LET is == ms.Resources[res].Instances[key]
      IN  IF is.Current # NilObject \/ dk \notin DOMAIN is.Deposed
          THEN [ms |-> ms, ret |-> FALSE]
          ELSE [ms |-> [ms EXCEPT !.Resources[res].Instances[key] =
                           [Current |-> is.Deposed[dk], Deposed |-> Del(is.Deposed, dk)]],
                ret |-> TRUE]


\* ------------------------------------------------- moves (4.2, State.Move*)

\* All three relocate a tracked record; a missing source is a fatal error of
\* the unconditional form and a plain "false" of the Maybe form.  The source
\* module is pruned when the move empties it.  What happens when the
\* destination is already tracked is not specified: callers never do that.
\* Mutant of State_pruneAfterMove: the source module stays as the move left
\* it.
State_pruneAfterMove_none(s, addr) == s

State_pruneAfterMove(s, addr) ==
    IF ~IsRoot(addr) /\ State_HasModule(s, addr) /\ Module_empty(s.Modules[addr])
    THEN State_RemoveModule(s, addr) ELSE s

State_HasResource(s, addr) ==
    /\ State_HasModule(s, addr.Module)
    /\ Module_HasResource(s.Modules[addr.Module], addr.Resource)

State_HasInstance(s, addr) ==
    /\ State_HasModule(s, addr.Module)
    /\ Module_HasInstance(s.Modules[addr.Module], addr.Resource, addr.Key)

State_MoveAbsResource(s, src, dst) ==
    IF ~State_HasResource(s, src) THEN [state |-> s, panic |-> TRUE]
    ELSE
      LET rs == s.Modules[src.Module].Resources[src.Resource]
          s1 == WithModule(s, src.Module,
                           Module_RemoveResource(s.Modules[src.Module], src.Resource))
          s2 == State_EnsureModule(State_pruneAfterMove(s1, src.Module), dst.Module)
          dm == s2.Modules[dst.Module]
      IN  [state |-> WithModule(s2, dst.Module,
                        [dm EXCEPT !.Resources = Put(dm.Resources, dst.Resource, rs)]),
           panic |-> FALSE]

State_MoveAbsResourceInstance(s, src, dst) ==
    IF ~State_HasInstance(s, src) THEN [state |-> s, panic |-> TRUE]
    ELSE
      LET srs == s.Modules[src.Module].Resources[src.Resource]
          is == srs.Instances[src.Key]
          s1 == WithModule(s, src.Module,
                           Module_ForgetResourceInstanceAll(s.Modules[src.Module],
                                                            src.Resource, src.Key))
          s2 == State_EnsureModule(State_pruneAfterMove(s1, src.Module), dst.Module)
          dm == s2.Modules[dst.Module]
          dm1 == IF Module_HasResource(dm, dst.Resource) THEN dm
                 ELSE [dm EXCEPT !.Resources = Put(dm.Resources, dst.Resource,
                          [ProviderConfig |-> srs.ProviderConfig,
                           ProviderKey |-> srs.ProviderKey, Instances |-> EmptyMap])]
      IN  [state |-> WithModule(s2, dst.Module,
                        [dm1 EXCEPT !.Resources[dst.Resource].Instances =
                             Put(dm1.Resources[dst.Resource].Instances, dst.Key, is)]),
           panic |-> FALSE]

\* The root module cannot be moved, nor anything moved onto it.
State_MoveModuleInstance(s, src, dst) ==
    IF IsRoot(src) \/ IsRoot(dst) \/ ~State_HasModule(s, src)
    THEN [state |-> s, panic |-> TRUE]
    ELSE [state |-> [s EXCEPT !.Modules = Put(Del(s.Modules, src), dst, s.Modules[src])],
          panic |-> FALSE]

\* ------------------------------------------------- the facade (sync.go)

\* What a facade call yields: the tree it leaves, its boolean or deposed-key
\* return value, and whether it ended in a panic.
Ret(s) == [state |-> s, ok |-> FALSE, key |-> NotDeposed, panic |-> FALSE]
RetOk(s, b) == [state |-> s, ok |-> b, key |-> NotDeposed, panic |-> FALSE]
RetKey(s, k) == [state |-> s, ok |-> FALSE, key |-> k, panic |-> FALSE]
Panic(s) == [state |-> s, ok |-> FALSE, key |-> NotDeposed, panic |-> TRUE]

\* Mutants of maybePruneModule: one that never prunes, one that prunes the
\* root module like any other.
maybePruneModule_neverPrunes(s, addr) == s

maybePruneModule_prunesRoot(s, addr) ==
    IF ~State_HasModule(s, addr) THEN s
    ELSE IF Module_empty(s.Modules[addr])
    THEN [s EXCEPT !.Modules = Del(s.Modules, addr)]
    ELSE s

maybePruneModule(s, addr) ==
    IF IsRoot(addr) THEN s
    ELSE IF ~State_HasModule(s, addr) THEN s
    ELSE IF Module_empty(s.Modules[addr]) THEN State_RemoveModule(s, addr)
    ELSE s

RemoveModule(s, addr) == Ret(State_RemoveModule(s, addr))

\* Mutant of SetOutputValue: a value already stored under the name is kept.
SetOutputValue_keepsExisting(s, addr, ov) ==
    LET s1 == State_EnsureModule(s, addr.Module)
    IN  IF addr.Name \in DOMAIN s1.Modules[addr.Module].OutputValues THEN Ret(s1)
        ELSE Ret(WithModule(s1, addr.Module,
                            Module_SetOutputValue(s1.Modules[addr.Module], addr.Name, ov)))

SetOutputValue(s, addr, ov) ==
    LET s1 == State_EnsureModule(s, addr.Module)
    IN  Ret(WithModule(s1, addr.Module,
                       Module_SetOutputValue(s1.Modules[addr.Module], addr.Name, ov)))

RemoveOutputValue(s, addr) ==
    IF ~State_HasModule(s, addr.Module) THEN Ret(s)
    ELSE Ret(maybePruneModule(
               WithModule(s, addr.Module,
                          Module_RemoveOutputValue(s.Modules[addr.Module], addr.Name)),
               addr.Module))

SetLocalValue(s, addr, v) ==
    LET s1 == State_EnsureModule(s, addr.Module)
    IN  Ret(WithModule(s1, addr.Module,
                       Module_SetLocalValue(s1.Modules[addr.Module], addr.Name, v)))

RemoveLocalValue(s, addr) ==
    IF ~State_HasModule(s, addr.Module) THEN Ret(s)
    ELSE Ret(maybePruneModule(
               WithModule(s, addr.Module,
                          Module_RemoveLocalValue(s.Modules[addr.Module], addr.Name)),
               addr.Module))

SetResourceProvider(s, addr, provider) ==
    LET s1 == State_EnsureModule(s, addr.Module)
    IN  Ret(WithModule(s1, addr.Module,
                       Module_SetResourceProvider(s1.Modules[addr.Module],
                                                  addr.Resource, provider)))

\* Mutant of RemoveResource: the module is not pruned afterwards.
RemoveResource_noPrune(s, addr) ==
    LET s1 == State_EnsureModule(s, addr.Module)
    IN  Ret(WithModule(s1, addr.Module,
                       Module_RemoveResource(s1.Modules[addr.Module], addr.Resource)))

RemoveResource(s, addr) ==
    LET s1 == State_EnsureModule(s, addr.Module)
        s2 == WithModule(s1, addr.Module,
                         Module_RemoveResource(s1.Modules[addr.Module], addr.Resource))
    IN  Ret(maybePruneModule(s2, addr.Module))

\* Mutants of RemoveResourceIfEmpty: one that removes without looking at the
\* instances, one that counts only instances with a current object.
RemoveResourceIfEmpty_noCheck(s, addr) ==
    IF ~State_HasModule(s, addr.Module) THEN RetOk(s, TRUE)
    ELSE RetOk(maybePruneModule(
                 WithModule(s, addr.Module,
                            Module_RemoveResource(s.Modules[addr.Module], addr.Resource)),
                 addr.Module),
               TRUE)

RemoveResourceIfEmpty_currentOnly(s, addr) ==
    IF ~State_HasModule(s, addr.Module) THEN RetOk(s, TRUE)
    ELSE IF ~Module_HasResource(s.Modules[addr.Module], addr.Resource) THEN RetOk(s, TRUE)
    ELSE IF \E k \in DOMAIN s.Modules[addr.Module].Resources[addr.Resource].Instances :
              s.Modules[addr.Module].Resources[addr.Resource].Instances[k].Current # NilObject
    THEN RetOk(s, FALSE)
    ELSE RetOk(maybePruneModule(
                 WithModule(s, addr.Module,
                            Module_RemoveResource(s.Modules[addr.Module], addr.Resource)),
                 addr.Module),
               TRUE)

RemoveResourceIfEmpty(s, addr) ==
    IF ~State_HasModule(s, addr.Module) THEN RetOk(s, TRUE)
    ELSE IF ~Module_HasResource(s.Modules[addr.Module], addr.Resource) THEN RetOk(s, TRUE)
    ELSE IF DOMAIN s.Modules[addr.Module].Resources[addr.Resource].Instances # {}
    THEN RetOk(s, FALSE)
    ELSE RetOk(maybePruneModule(
                 WithModule(s, addr.Module,
                            Module_RemoveResource(s.Modules[addr.Module], addr.Resource)),
                 addr.Module),
               TRUE)

\* Mutant of SetResourceInstanceCurrent: a nil object forgets the instance
\* with all its generations.
SetResourceInstanceCurrent_nilForgetsAll(s, addr, obj, provider, providerKey) ==
    LET s1 == State_EnsureModule(s, addr.Module)
        s2 == WithModule(s1, addr.Module,
                IF obj = NilObject
                THEN Module_ForgetResourceInstanceAll(s1.Modules[addr.Module],
                                                      addr.Resource, addr.Key)
                ELSE Module_SetResourceInstanceCurrent(s1.Modules[addr.Module],
                         addr.Resource, addr.Key, obj, provider, providerKey))
    IN  Ret(maybePruneModule(s2, addr.Module))

SetResourceInstanceCurrent(s, addr, obj, provider, providerKey) ==
    LET s1 == State_EnsureModule(s, addr.Module)
        s2 == WithModule(s1, addr.Module,
                Module_SetResourceInstanceCurrent(s1.Modules[addr.Module], addr.Resource,
                                                  addr.Key, obj, provider, providerKey))
    IN  Ret(maybePruneModule(s2, addr.Module))

\* Mutant of SetResourceInstanceDeposed: the resource is created first when
\* it is not tracked.
SetResourceInstanceDeposed_ensuresResource(s, addr, dk, obj, provider, providerKey) ==
    LET s1 == State_EnsureModule(s, addr.Module)
        ms1 == IF Module_HasResource(s1.Modules[addr.Module], addr.Resource)
               THEN s1.Modules[addr.Module]
               ELSE Module_SetResourceProvider(s1.Modules[addr.Module], addr.Resource,
                                               provider)
        r == Module_SetResourceInstanceDeposed(ms1, addr.Resource, addr.Key, dk, obj,
                                               provider, providerKey)
    IN  IF r.panic THEN Panic(s1)
        ELSE Ret(maybePruneModule(WithModule(s1, addr.Module, r.ms), addr.Module))

SetResourceInstanceDeposed(s, addr, dk, obj, provider, providerKey) ==
    LET s1 == State_EnsureModule(s, addr.Module)
        r == Module_SetResourceInstanceDeposed(s1.Modules[addr.Module], addr.Resource,
                                               addr.Key, dk, obj, provider, providerKey)
    IN  IF r.panic THEN Panic(s1)
        ELSE Ret(maybePruneModule(WithModule(s1, addr.Module, r.ms), addr.Module))


\* Mutants of DeposeResourceInstanceObject: one that reports another key than
\* the one it deposed under, one that leaves the current object in place, one
\* that looks the module up with EnsureModule.
DeposeResourceInstanceObject_wrongKey(s, addr, fresh) ==
    IF ~State_HasModule(s, addr.Module) THEN RetKey(s, NotDeposed)
    ELSE
      LET r == Module_deposeResourceInstanceObject(s.Modules[addr.Module], addr.Resource,
                                                   addr.Key, NotDeposed, fresh)
      IN  RetKey(WithModule(s, addr.Module, r.ms),
                 IF r.ret = NotDeposed THEN NotDeposed
                 ELSE CHOOSE k \in DeposedKeys : k # r.ret)

DeposeResourceInstanceObject_keepsCurrent(s, addr, fresh) ==
    IF ~State_HasInstance(s, addr) THEN RetKey(s, NotDeposed)
    ELSE
      LET ms == s.Modules[addr.Module]
          is == ms.Resources[addr.Resource].Instances[addr.Key]
      IN  IF is.Current = NilObject THEN RetKey(s, NotDeposed)
          ELSE RetKey(WithModule(s, addr.Module,
                        [ms EXCEPT !.Resources[addr.Resource].Instances[addr.Key].Deposed =
                                      Put(is.Deposed, fresh, is.Current)]),
                      fresh)

DeposeResourceInstanceObject_ensuresModule(s, addr, fresh) ==
    LET s1 == State_EnsureModule(s, addr.Module)
        r == Module_deposeResourceInstanceObject(s1.Modules[addr.Module], addr.Resource,
                                                 addr.Key, NotDeposed, fresh)
    IN  RetKey(WithModule(s1, addr.Module, r.ms), r.ret)

DeposeResourceInstanceObject(s, addr, fresh) ==
    IF ~State_HasModule(s, addr.Module) THEN RetKey(s, NotDeposed)
    ELSE
      LET r == Module_deposeResourceInstanceObject(s.Modules[addr.Module], addr.Resource,
                                                   addr.Key, NotDeposed, fresh)
      IN  RetKey(WithModule(s, addr.Module, r.ms), r.ret)

\* Mutant of DeposeResourceInstanceObjectForceKey: a key in use is taken all
\* the same and the object deposed under it is replaced.
DeposeResourceInstanceObjectForceKey_overwrites(s, addr, forcedKey) ==
    IF forcedKey = NotDeposed THEN Panic(s)
    ELSE IF ~State_HasInstance(s, addr) THEN Ret(s)
    ELSE
      LET is == s.Modules[addr.Module].Resources[addr.Resource].Instances[addr.Key]
      IN  IF is.Current = NilObject THEN Ret(s)
          ELSE Ret([s EXCEPT !.Modules[addr.Module].Resources[addr.Resource]
                               .Instances[addr.Key] =
                        [Current |-> NilObject,
                         Deposed |-> Put(is.Deposed, forcedKey, is.Current)]])

DeposeResourceInstanceObjectForceKey(s, addr, forcedKey) ==
    IF forcedKey = NotDeposed THEN Panic(s)
    ELSE IF ~State_HasModule(s, addr.Module) THEN Ret(s)
    ELSE
      LET r == Module_deposeResourceInstanceObject(s.Modules[addr.Module], addr.Resource,
                                                   addr.Key, forcedKey, NotDeposed)
      IN  IF r.panic THEN Panic(s) ELSE Ret(WithModule(s, addr.Module, r.ms))

ForgetResourceInstanceAll(s, addr) ==
    IF ~State_HasModule(s, addr.Module) THEN Ret(s)
    ELSE Ret(maybePruneModule(
               WithModule(s, addr.Module,
                          Module_ForgetResourceInstanceAll(s.Modules[addr.Module],
                                                           addr.Resource, addr.Key)),
               addr.Module))

ForgetResourceInstanceDeposed(s, addr, dk) ==
    IF ~State_HasModule(s, addr.Module) THEN Ret(s)
    ELSE Ret(maybePruneModule(
               WithModule(s, addr.Module,
                          Module_ForgetResourceInstanceDeposed(s.Modules[addr.Module],
                                                               addr.Resource, addr.Key, dk)),
               addr.Module))

\* Mutants of MaybeRestoreResourceInstanceDeposed: one that restores over an
\* existing current object, one that restores whatever deposed object there
\* is when the key names none.
MaybeRestoreResourceInstanceDeposed_overwrites(s, addr, dk) ==
    IF dk = NotDeposed THEN Panic(s)
    ELSE IF ~State_HasModule(s, addr.Module) THEN RetOk(s, FALSE)
    ELSE IF ~Module_HasInstance(s.Modules[addr.Module], addr.Resource, addr.Key)
    THEN RetOk(s, FALSE)
    ELSE
      LET ms == s.Modules[addr.Module]
          is == ms.Resources[addr.Resource].Instances[addr.Key]
      IN  IF dk \notin DOMAIN is.Deposed THEN RetOk(s, FALSE)
          ELSE RetOk(WithModule(s, addr.Module,
                       [ms EXCEPT !.Resources[addr.Resource].Instances[addr.Key] =
                          [Current |-> is.Deposed[dk], Deposed |-> Del(is.Deposed, dk)]]),
                     TRUE)

MaybeRestoreResourceInstanceDeposed_anyKey(s, addr, dk) ==
    IF dk = NotDeposed THEN Panic(s)
    ELSE IF ~State_HasModule(s, addr.Module) THEN RetOk(s, FALSE)
    ELSE IF ~Module_HasInstance(s.Modules[addr.Module], addr.Resource, addr.Key)
    THEN RetOk(s, FALSE)
    ELSE
      LET ms == s.Modules[addr.Module]
          is == ms.Resources[addr.Resource].Instances[addr.Key]
          k == IF dk \in DOMAIN is.Deposed THEN dk ELSE CHOOSE x \in DOMAIN is.Deposed : TRUE
      IN  IF is.Current # NilObject \/ DOMAIN is.Deposed = {} THEN RetOk(s, FALSE)
          ELSE RetOk(WithModule(s, addr.Module,
                       [ms EXCEPT !.Resources[addr.Resource].Instances[addr.Key] =
                          [Current |-> is.Deposed[k], Deposed |-> Del(is.Deposed, k)]]),
                     TRUE)

\* Mutant of MaybeRestoreResourceInstanceDeposed: the module is looked up
\* before the key is checked.
MaybeRestoreResourceInstanceDeposed_moduleFirst(s, addr, dk) ==
    IF ~State_HasModule(s, addr.Module) THEN RetOk(s, FALSE)
    ELSE IF dk = NotDeposed THEN Panic(s)
    ELSE
      LET r == Module_maybeRestoreResourceInstanceDeposed(s.Modules[addr.Module],
                                                          addr.Resource, addr.Key, dk)
      IN  RetOk(WithModule(s, addr.Module, r.ms), r.ret)

MaybeRestoreResourceInstanceDeposed(s, addr, dk) ==
    IF dk = NotDeposed THEN Panic(s)
    ELSE IF ~State_HasModule(s, addr.Module) THEN RetOk(s, FALSE)
    ELSE
      LET r == Module_maybeRestoreResourceInstanceDeposed(s.Modules[addr.Module],
                                                          addr.Resource, addr.Key, dk)
      IN  RetOk(WithModule(s, addr.Module, r.ms), r.ret)


\* Mutant of forgetPlannedDeposed: a deposed object is forgotten whatever its
\* status.
forgetPlannedDeposed_anyStatus(ms, res, key, deposed, dks) ==
    IF dks = {} THEN ms
    ELSE Module_ForgetResourceInstanceDeposed(ms, res, key, CHOOSE k \in dks : TRUE)

\* The body of the loop over rs.Instances: the planned current object is
\* written away with a nil write, then every planned deposed object of the
\* instance (as it was when the loop reached it) is forgotten.
RECURSIVE forgetPlannedDeposed(_, _, _, _, _)
forgetPlannedDeposed(ms, res, key, deposed, dks) ==
    IF dks = {} THEN ms
    ELSE LET dk == CHOOSE k \in dks : TRUE
         IN  forgetPlannedDeposed(
               IF deposed[dk].Status = ObjectPlanned
               THEN Module_ForgetResourceInstanceDeposed(ms, res, key, dk) ELSE ms,
               res, key, deposed, dks \ {dk})

\* Mutant of removePlannedInstance: the deposed objects are not looked at.
removePlannedInstance_currentOnly(ms, rs, res, key) ==
    LET is == rs.Instances[key]
    IN  IF is.Current # NilObject /\ is.Current.Status = ObjectPlanned
        THEN Module_SetResourceInstanceCurrent(ms, res, key, NilObject,
                                               rs.ProviderConfig, NoKey)
        ELSE ms

removePlannedInstance(ms, rs, res, key) ==
    LET is == rs.Instances[key]
        ms1 == IF is.Current # NilObject /\ is.Current.Status = ObjectPlanned
               THEN Module_SetResourceInstanceCurrent(ms, res, key, NilObject,
                                                      rs.ProviderConfig, NoKey)
               ELSE ms
    IN  forgetPlannedDeposed(ms1, res, key, is.Deposed, DOMAIN is.Deposed)

RECURSIVE removePlannedInstances(_, _, _, _)
removePlannedInstances(ms, rs, res, keys) ==
    IF keys = {} THEN ms
    ELSE LET key == CHOOSE k \in keys : TRUE
         IN  removePlannedInstances(removePlannedInstance(ms, rs, res, key),
                                    rs, res, keys \ {key})

RECURSIVE removePlannedResources(_, _, _)
removePlannedResources(ms, resources, names) ==
    IF names = {} THEN ms
    ELSE LET res == CHOOSE r \in names : TRUE
         IN  removePlannedResources(
               removePlannedInstances(ms, resources[res], res,
                                      DOMAIN resources[res].Instances),
               resources, names \ {res})

RECURSIVE removePlannedModules(_, _, _)
removePlannedModules(s, modules, addrs) ==
    IF addrs = {} THEN s
    ELSE LET moduleAddr == CHOOSE a \in addrs : TRUE
             ms == modules[moduleAddr]
             s1 == WithModule(s, moduleAddr,
                     removePlannedResources(ms, ms.Resources, DOMAIN ms.Resources))
         IN  removePlannedModules(maybePruneModule(s1, moduleAddr), modules,
                                  addrs \ {moduleAddr})

RemovePlannedResourceInstanceObjects(s) ==
    Ret(removePlannedModules(s, s.Modules, DOMAIN s.Modules))

DiscardCheckResults(s) == Ret([s EXCEPT !.CheckResults = NilCheckResults])

\* Mutant of RecordCheckResults: the results recorded earlier stay for the
\* objects that the new check state does not mention.
RecordCheckResults_merges(s, checkState) ==
    LET new == NewCheckResults(checkState)
        old == IF s.CheckResults.nil THEN EmptyMap ELSE s.CheckResults.ConfigResults
    IN  Ret([s EXCEPT !.CheckResults =
                [nil |-> FALSE,
                 ConfigResults |-> [n \in DOMAIN old \cup DOMAIN new.ConfigResults |->
                                      IF n \in DOMAIN new.ConfigResults
                                      THEN new.ConfigResults[n] ELSE old[n]]]])

RecordCheckResults(s, checkState) ==
    LET newResults == NewCheckResults(checkState)
    IN  Ret([s EXCEPT !.CheckResults = newResults])

MoveAbsResource(s, src, dst) ==
    LET r == State_MoveAbsResource(s, src, dst)
    IN  IF r.panic THEN Panic(r.state) ELSE Ret(r.state)

\* Mutant of MaybeMoveAbsResource: the wrapper calls the unconditional move.
MaybeMoveAbsResource_unconditional(s, src, dst) ==
    LET r == State_MoveAbsResource(s, src, dst)
    IN  IF r.panic THEN Panic(r.state) ELSE RetOk(r.state, TRUE)

MaybeMoveAbsResource(s, src, dst) ==
    IF ~State_HasResource(s, src) THEN RetOk(s, FALSE)
    ELSE RetOk(State_MoveAbsResource(s, src, dst).state, TRUE)

\* Mutant of MoveResourceInstance: the wrapper calls the move of the whole
\* resource.
MoveResourceInstance_movesResource(s, src, dst) ==
    LET r == State_MoveAbsResource(s, ContainingResource(src), ContainingResource(dst))
    IN  IF r.panic THEN Panic(r.state) ELSE Ret(r.state)

MoveResourceInstance(s, src, dst) ==
    LET r == State_MoveAbsResourceInstance(s, src, dst)
    IN  IF r.panic THEN Panic(r.state) ELSE Ret(r.state)

MaybeMoveResourceInstance(s, src, dst) ==
    IF ~State_HasInstance(s, src) THEN RetOk(s, FALSE)
    ELSE RetOk(State_MoveAbsResourceInstance(s, src, dst).state, TRUE)

MoveModuleInstance(s, src, dst) ==
    LET r == State_MoveModuleInstance(s, src, dst)
    IN  IF r.panic THEN Panic(r.state) ELSE Ret(r.state)

MaybeMoveModuleInstance(s, src, dst) ==
    IF ~IsRoot(src) /\ ~IsRoot(dst) /\ ~State_HasModule(s, src) THEN RetOk(s, FALSE)
    ELSE LET r == State_MoveModuleInstance(s, src, dst)
         IN  IF r.panic THEN Panic(r.state) ELSE RetOk(r.state, TRUE)

\* ------------------------------------------------------------- tree size

RECURSIVE SumFn(_, _)
SumFn(f, D) ==
    IF D = {} THEN 0
    ELSE LET x == CHOOSE y \in D : TRUE IN f[x] + SumFn(f, D \ {x})

InstanceLeaves(is) ==
    (IF is.Current = NilObject THEN 0 ELSE 1) + Cardinality(DOMAIN is.Deposed)

ResourceLeaves(rs) ==
    IF DOMAIN rs.Instances = {} THEN 1
    ELSE SumFn([k \in DOMAIN rs.Instances |-> InstanceLeaves(rs.Instances[k])],
               DOMAIN rs.Instances)

ModuleLeaves(ms) ==
    Cardinality(DOMAIN ms.OutputValues) + Cardinality(DOMAIN ms.LocalValues)
    + SumFn([r \in DOMAIN ms.Resources |-> ResourceLeaves(ms.Resources[r])],
            DOMAIN ms.Resources)

Leaves(s) ==
    SumFn([a \in DOMAIN s.Modules |-> ModuleLeaves(s.Modules[a])], DOMAIN s.Modules)

\* ------------------------------------------------- read accessors (4.2)
\* A read accessor looks a record up in the tree, which yields a pointer into
\* the tree, and hands a deep copy of it to the caller.  What the caller is
\* handed is [alias, ref, val]: ref names the record, val is its content at
\* the time of the call, and alias says whether the caller holds the record
\* of the tree itself rather than a copy.

CallNames == {"child", "other"}

\* The tracked instances of the module call name in the module parent.
CallInstances(s, parent, name) ==
    {m \in DOMAIN s.Modules :
        /\ Len(m) = Len(parent) + 1
        /\ SubSeq(m, 1, Len(parent)) = parent
        /\ m[Len(m)] = name}

\* The content of the record that ref names in tree s, or its absence (nil).
Absent == [present |-> FALSE]
Present(v) == [present |-> TRUE, v |-> v]

Deref(s, ref) ==
    IF ref.kind = "State" THEN Present(s)
    ELSE IF ref.kind = "Module"
    THEN IF State_HasModule(s, ref.addr) THEN Present(s.Modules[ref.addr]) ELSE Absent
    ELSE IF ref.kind = "ModuleOutputs"
    THEN Present([m \in CallInstances(s, ref.parent, ref.name) |-> s.Modules[m].OutputValues])
    ELSE IF ref.kind = "OutputValue"
    THEN IF State_HasModule(s, ref.addr.Module)
            /\ ref.addr.Name \in DOMAIN s.Modules[ref.addr.Module].OutputValues
         THEN Present(s.Modules[ref.addr.Module].OutputValues[ref.addr.Name]) ELSE Absent
    ELSE IF ref.kind = "LocalValue"
    THEN IF State_HasModule(s, ref.addr.Module)
            /\ ref.addr.Name \in DOMAIN s.Modules[ref.addr.Module].LocalValues
         THEN Present(s.Modules[ref.addr.Module].LocalValues[ref.addr.Name]) ELSE Absent
    ELSE IF ref.kind = "Resource"
    THEN IF State_HasResource(s, ref.addr)
         THEN Present(s.Modules[ref.addr.Module].Resources[ref.addr.Resource]) ELSE Absent
    ELSE IF ref.kind = "ResourceInstance"
    THEN IF State_HasInstance(s, ref.addr)
         THEN Present(s.Modules[ref.addr.Module].Resources[ref.addr.Resource]
                         .Instances[ref.addr.Key])
         ELSE Absent
    ELSE IF ~State_HasInstance(s, ref.addr) THEN Absent
    ELSE LET is == s.Modules[ref.addr.Module].Resources[ref.addr.Resource]
                      .Instances[ref.addr.Key]
         IN  IF ref.gen = NotDeposed
             THEN IF is.Current # NilObject THEN Present(is.Current) ELSE Absent
             ELSE IF ref.gen \in DOMAIN is.Deposed THEN Present(is.Deposed[ref.gen])
             ELSE Absent

\* Mutant of DeepCopy: the caller is handed the record of the tree.
DeepCopy_sharesPointer(s, ref) == [alias |-> TRUE, ref |-> ref, val |-> Deref(s, ref)]

\* x.DeepCopy() of the record that ref names.
DeepCopy(s, ref) == [alias |-> FALSE, ref |-> ref, val |-> Deref(s, ref)]

Module(s, addr) == DeepCopy(s, [kind |-> "Module", addr |-> addr])

ModuleOutputs(s, parentAddr, module) ==
    DeepCopy(s, [kind |-> "ModuleOutputs", parent |-> parentAddr, name |-> module])

OutputValue(s, addr) == DeepCopy(s, [kind |-> "OutputValue", addr |-> addr])

\* cty.Value is immutable: the value itself is returned.
LocalValue(s, addr) ==
    [alias |-> FALSE, ref |-> [kind |-> "LocalValue", addr |-> addr],
     val |-> Deref(s, [kind |-> "LocalValue", addr |-> addr])]

Resource(s, addr) == DeepCopy(s, [kind |-> "Resource", addr |-> addr])

ResourceInstance(s, addr) == DeepCopy(s, [kind |-> "ResourceInstance", addr |-> addr])

ResourceInstanceObject(s, addr, gen) ==
    DeepCopy(s, [kind |-> "ResourceInstanceObject", addr |-> addr, gen |-> gen])

\* What the caller finds in what it was handed, when the tree is s.
Seen(h, s) == IF h.alias THEN Deref(s, h.ref) ELSE h.val

\* The caller changes what it was handed: v after the change.
Scribble(ref, v) ==
    IF ref.kind = "Module" THEN [v EXCEPT !.LocalValues = Put(v.LocalValues, "loc", "w")]
    ELSE IF ref.kind = "ModuleOutputs"
    THEN [m \in DOMAIN v |-> [n \in DOMAIN v[m] |-> [v[m][n] EXCEPT !.Value = "w"]]]
    ELSE IF ref.kind = "OutputValue" THEN [v EXCEPT !.Value = "w"]
    ELSE IF ref.kind = "Resource" THEN [v EXCEPT !.ProviderConfig = "pw"]
    ELSE IF ref.kind = "ResourceInstance"
    THEN [v EXCEPT !.Current = [Status |-> "tainted", Attrs |-> 0]]
    ELSE [v EXCEPT !.Status = "tainted"]

\* Tree s with the record that ref names, which is tracked, replaced by v.
WriteBack(s, ref, v) ==
    IF ref.kind = "Module" THEN WithModule(s, ref.addr, v)
    ELSE IF ref.kind = "ModuleOutputs"
    THEN [s EXCEPT !.Modules =
            [m \in DOMAIN s.Modules |->
                IF m \in DOMAIN v THEN [s.Modules[m] EXCEPT !.OutputValues = v[m]]
                ELSE s.Modules[m]]]
    ELSE IF ref.kind = "OutputValue"
    THEN [s EXCEPT !.Modules[ref.addr.Module].OutputValues[ref.addr.Name] = v]
    ELSE IF ref.kind = "Resource"
    THEN [s EXCEPT !.Modules[ref.addr.Module].Resources[ref.addr.Resource] = v]
    ELSE IF ref.kind = "ResourceInstance"
    THEN [s EXCEPT !.Modules[ref.addr.Module].Resources[ref.addr.Resource]
                     .Instances[ref.addr.Key] = v]
    ELSE IF ref.gen = NotDeposed
    THEN [s EXCEPT !.Modules[ref.addr.Module].Resources[ref.addr.Resource]
                     .Instances[ref.addr.Key].Current = v]
    ELSE [s EXCEPT !.Modules[ref.addr.Module].Resources[ref.addr.Resource]
                     .Instances[ref.addr.Key].Deposed[ref.gen] = v]

\* ------------------------------------------------------------------ Spec

VARIABLES
    state,      \* SyncState.state: the tree behind the facade
    prev,       \* the tree as it was when the last call started
    call,       \* the facade call that ran last, with its arguments
    ret,        \* what that call returned: [ok, key]
    panicked,   \* that call ended in a panic; the process is gone
    held,       \* what the read accessor that ran last handed to its caller
    closed,     \* SyncState.state is nil: Close has extracted the tree, and
                \* state is from then on the tree that Close returned
    tree0,      \* the tree the concurrent callers started from
    op,         \* per caller: the facade method it calls, with its arguments
    pc,         \* per caller: the statement of that method it executes next
    cret,       \* per caller: what its call has returned so far
    writers,    \* SyncState.lock: the callers holding it exclusively
    readers,    \* SyncState.lock: the callers holding it shared
    order       \* the callers in the order in which they acquired the lock

seqVars == <<prev, call, ret, panicked, held, closed>>
concVars == <<tree0, op, pc, cret, writers, readers, order>>
vars == <<state, prev, call, ret, panicked, held, closed, tree0, op, pc, cret, writers, readers, order>>

Callers == 1..NumCallers

NoCall == [op |-> "none"]
NoRet == [ok |-> FALSE, key |-> NotDeposed]

\* What a caller holds before its call has returned anything: no verdict and
\* no copy of a resource.
NoSnapshot == [present |-> FALSE, rs |-> NewResource("p1")]
NoConcRet == [ok |-> FALSE, snap |-> NoSnapshot]
NoOp == [name |-> "none"]

\* Nothing handed out.
NoHeld == [alias |-> FALSE, ref |-> [kind |-> "none"], val |-> [present |-> FALSE]]

SeqIdle ==
    /\ prev = NewState
    /\ call = NoCall
    /\ ret = NoRet
    /\ panicked = FALSE
    /\ held = NoHeld
    /\ closed = FALSE

ConcIdle ==
    /\ tree0 = NewState
    /\ op = [c \in Callers |-> NoOp]
    /\ pc = [c \in Callers |-> "done"]
    /\ cret = [c \in Callers |-> NoConcRet]
    /\ writers = {}
    /\ readers = {}
    /\ order = <<>>

Init ==
    /\ state = NewState
    /\ SeqIdle
    /\ ConcIdle

\* One whole facade call, issued by a caller that holds no earlier result:
\* r is what the method yields on the tree as it is.
\* After Close the method dereferences the nil s.state and panics.
Apply(r, c) ==
    /\ ~panicked
    /\ call = NoCall
    /\ LET q == IF closed THEN Panic(state) ELSE r
       IN  /\ Leaves(q.state) <= MaxLeaves
           /\ state' = q.state
           /\ ret' = [ok |-> q.ok, key |-> q.key]
           /\ panicked' = q.panic
    /\ prev' = state
    /\ call' = c
    /\ UNCHANGED <<held, closed>>
    /\ UNCHANGED concVars

\* The caller takes the result and is ready for its next call.
Return ==
    /\ ~panicked
    /\ call # NoCall
    /\ call' = NoCall
    /\ ret' = NoRet
    /\ prev' = state
    /\ held' = NoHeld
    /\ UNCHANGED <<state, panicked, closed>>
    /\ UNCHANGED concVars

\* State.RemoveModule on the root module either declines or ends the process;
\* the root entry stays in both.
DoRemoveModule ==
    \E addr \in AllModuleAddrs :
        \E fatal \in (IF IsRoot(addr) THEN BOOLEAN ELSE {FALSE}) :
            Apply(IF fatal THEN Panic(state) ELSE RemoveModule(state, addr),
                  [op |-> "RemoveModule", addr |-> addr])

DoSetOutputValue ==
    \E addr \in AbsOutputValues, ov \in OutputValues :
        Apply(SetOutputValue(state, addr, ov),
              [op |-> "SetOutputValue", addr |-> addr, value |-> ov])

DoRemoveOutputValue ==
    \E addr \in AbsOutputValues :
        Apply(RemoveOutputValue(state, addr), [op |-> "RemoveOutputValue", addr |-> addr])

DoSetLocalValue ==
    \E addr \in AbsLocalValues, v \in LocalValueSet :
        Apply(SetLocalValue(state, addr, v),
              [op |-> "SetLocalValue", addr |-> addr, value |-> v])

DoRemoveLocalValue ==
    \E addr \in AbsLocalValues :
        Apply(RemoveLocalValue(state, addr), [op |-> "RemoveLocalValue", addr |-> addr])

DoSetResourceProvider ==
    \E addr \in AbsResources, provider \in Providers :
        Apply(SetResourceProvider(state, addr, provider),
              [op |-> "SetResourceProvider", addr |-> addr, provider |-> provider])

DoRemoveResource ==
    \E addr \in AbsResources :
        Apply(RemoveResource(state, addr), [op |-> "RemoveResource", addr |-> addr])

DoRemoveResourceIfEmpty ==
    \E addr \in AbsResources :
        Apply(RemoveResourceIfEmpty(state, addr),
              [op |-> "RemoveResourceIfEmpty", addr |-> addr])

\* Mutant of CallerObject: the method stores the pointer it was passed.
CallerObject_storedAsIs(s, ref) == [alias |-> TRUE, ref |-> ref, val |-> Deref(s, ref)]

\* The object the caller passed in and still holds, next to the object that
\* the call has stored at ref: the method stores obj.DeepCopy(), so the two
\* are separate records of the same content.
CallerObject(s, ref) == DeepCopy(s, ref)

\* One whole facade call that stores the object c.obj at ref; the caller keeps
\* its object when the call has stored one.
Write(r, c, ref) ==
    /\ ~panicked
    /\ call = NoCall
    /\ LET q == IF closed THEN Panic(state) ELSE r
       IN  /\ Leaves(q.state) <= MaxLeaves
           /\ state' = q.state
           /\ ret' = [ok |-> q.ok, key |-> q.key]
           /\ panicked' = q.panic
           /\ held' = IF q.panic \/ c.obj = NilObject THEN NoHeld
                      ELSE CallerObject(q.state, ref)
    /\ prev' = state
    /\ call' = c
    /\ UNCHANGED closed
    /\ UNCHANGED concVars

DoSetResourceInstanceCurrent ==
    \E addr \in AbsResourceInstances, obj \in Objects \cup {NilObject},
       provider \in Providers, providerKey \in ProviderKeys :
        Write(SetResourceInstanceCurrent(state, addr, obj, provider, providerKey),
              [op |-> "SetResourceInstanceCurrent", addr |-> addr, obj |-> obj,
               provider |-> provider, providerKey |-> providerKey],
              [kind |-> "ResourceInstanceObject", addr |-> addr, gen |-> NotDeposed])

DoSetResourceInstanceDeposed ==
    \E addr \in AbsResourceInstances, dk \in DeposedKeys, obj \in Objects \cup {NilObject},
       provider \in Providers, providerKey \in ProviderKeys :
        Write(SetResourceInstanceDeposed(state, addr, dk, obj, provider, providerKey),
              [op |-> "SetResourceInstanceDeposed", addr |-> addr, key |-> dk, obj |-> obj,
               provider |-> provider, providerKey |-> providerKey],
              [kind |-> "ResourceInstanceObject", addr |-> addr, gen |-> dk])


\* Mutant of DeposedKeysOf: the allocator sees no key in use.
DeposedKeysOf_none(s, addr) == {}

\* The deposed keys of the instance at addr (none when it is untracked).
DeposedKeysOf(s, addr) ==
    IF State_HasInstance(s, addr)
    THEN DOMAIN s.Modules[addr.Module].Resources[addr.Resource].Instances[addr.Key].Deposed
    ELSE {}

\* The allocator yields any key the instance does not use.
DoDeposeResourceInstanceObject ==
    \E addr \in AbsResourceInstances :
        \E fresh \in DeposedKeys \ DeposedKeysOf(state, addr) :
            Apply(DeposeResourceInstanceObject(state, addr, fresh),
                  [op |-> "DeposeResourceInstanceObject", addr |-> addr])

DoDeposeResourceInstanceObjectForceKey ==
    \E addr \in AbsResourceInstances, forcedKey \in DeposedKeys \cup {NotDeposed} :
        Apply(DeposeResourceInstanceObjectForceKey(state, addr, forcedKey),
              [op |-> "DeposeResourceInstanceObjectForceKey", addr |-> addr,
               key |-> forcedKey])

DoForgetResourceInstanceAll ==
    \E addr \in AbsResourceInstances :
        Apply(ForgetResourceInstanceAll(state, addr),
              [op |-> "ForgetResourceInstanceAll", addr |-> addr])

DoForgetResourceInstanceDeposed ==
    \E addr \in AbsResourceInstances, dk \in DeposedKeys :
        Apply(ForgetResourceInstanceDeposed(state, addr, dk),
              [op |-> "ForgetResourceInstanceDeposed", addr |-> addr, key |-> dk])

DoMaybeRestoreResourceInstanceDeposed ==
    \E addr \in AbsResourceInstances, dk \in DeposedKeys \cup {NotDeposed} :
        Apply(MaybeRestoreResourceInstanceDeposed(state, addr, dk),
              [op |-> "MaybeRestoreResourceInstanceDeposed", addr |-> addr, key |-> dk])

DoRemovePlannedResourceInstanceObjects ==
    Apply(RemovePlannedResourceInstanceObjects(state),
          [op |-> "RemovePlannedResourceInstanceObjects"])

\* The moves are issued only towards an address that is not tracked.
DoMoveAbsResource ==
    \E src \in AbsResources, dst \in AbsResources :
        /\ ~State_HasResource(state, dst)
        /\ src # dst
        /\ Apply(MoveAbsResource(state, src, dst),
                 [op |-> "MoveAbsResource", src |-> src, dst |-> dst])

DoMaybeMoveAbsResource ==
    \E src \in AbsResources, dst \in AbsResources :
        /\ ~State_HasResource(state, dst)
        /\ src # dst
        /\ Apply(MaybeMoveAbsResource(state, src, dst),
                 [op |-> "MaybeMoveAbsResource", src |-> src, dst |-> dst])

DoMoveResourceInstance ==
    \E src \in AbsResourceInstances, dst \in AbsResourceInstances :
        /\ ~State_HasInstance(state, dst)
        /\ src # dst
        /\ Apply(MoveResourceInstance(state, src, dst),
                 [op |-> "MoveResourceInstance", src |-> src, dst |-> dst])

DoMaybeMoveResourceInstance ==
    \E src \in AbsResourceInstances, dst \in AbsResourceInstances :
        /\ ~State_HasInstance(state, dst)
        /\ src # dst
        /\ Apply(MaybeMoveResourceInstance(state, src, dst),
                 [op |-> "MaybeMoveResourceInstance", src |-> src, dst |-> dst])

DoMoveModuleInstance ==
    \E src \in AllModuleAddrs, dst \in AllModuleAddrs :
        /\ ~State_HasModule(state, dst)
        /\ src # dst
        /\ Apply(MoveModuleInstance(state, src, dst),
                 [op |-> "MoveModuleInstance", src |-> src, dst |-> dst])

DoMaybeMoveModuleInstance ==
    \E src \in AllModuleAddrs, dst \in AllModuleAddrs :
        /\ ~State_HasModule(state, dst)
        /\ src # dst
        /\ Apply(MaybeMoveModuleInstance(state, src, dst),
                 [op |-> "MaybeMoveModuleInstance", src |-> src, dst |-> dst])

\* Mutant of Read: the accessor looks the module up with EnsureModule.
Read_ensuresModule(h, c) ==
    /\ ~panicked
    /\ call = NoCall
    /\ held' = IF closed THEN NoHeld ELSE h
    /\ panicked' = closed
    /\ call' = c
    /\ prev' = state
    /\ state' = IF closed THEN state ELSE State_EnsureModule(state, ChildModuleInstance)
    /\ UNCHANGED <<ret, closed>>
    /\ UNCHANGED concVars

\* One whole read accessor: h is what it hands to the caller.
Read(h, c) ==
    /\ ~panicked
    /\ call = NoCall
    /\ held' = IF closed THEN NoHeld ELSE h
    /\ panicked' = closed
    /\ call' = c
    /\ prev' = state
    /\ UNCHANGED <<state, ret, closed>>
    /\ UNCHANGED concVars

DoModule ==
    \E addr \in AllModuleAddrs :
        Read(Module(state, addr), [op |-> "Module", addr |-> addr])

DoModuleOutputs ==
    \E parentAddr \in {RootModuleInstance}, module \in CallNames :
        Read(ModuleOutputs(state, parentAddr, module),
             [op |-> "ModuleOutputs", addr |-> parentAddr, name |-> module])

DoOutputValue ==
    \E addr \in AbsOutputValues :
        Read(OutputValue(state, addr), [op |-> "OutputValue", addr |-> addr])

DoLocalValue ==
    \E addr \in AbsLocalValues :
        Read(LocalValue(state, addr), [op |-> "LocalValue", addr |-> addr])

DoResource ==
    \E addr \in AbsResources :
        Read(Resource(state, addr), [op |-> "Resource", addr |-> addr])

DoResourceInstance ==
    \E addr \in AbsResourceInstances :
        Read(ResourceInstance(state, addr), [op |-> "ResourceInstance", addr |-> addr])

DoResourceInstanceObject ==
    \E addr \in AbsResourceInstances, gen \in DeposedKeys \cup {NotDeposed} :
        Read(ResourceInstanceObject(state, addr, gen),
             [op |-> "ResourceInstanceObject", addr |-> addr, key |-> gen])

\* What Lock and Close yield: the pointer they return (nil once the facade is
\* closed) and whether s.state is nil afterwards.
\* Mutant of Close: s.state is left as it is.
Close_keepsState(s, isClosed) ==
    [tree |-> IF isClosed THEN Absent ELSE Present(s), closed |-> isClosed]

\* ret := s.state; s.state = nil; return ret
Close(s, isClosed) ==
    [tree |-> IF isClosed THEN Absent ELSE Present(s), closed |-> TRUE]

\* return s.state
Lock(s, isClosed) ==
    [tree |-> IF isClosed THEN Absent ELSE Present(s), closed |-> isClosed]

\* One whole Lock or Close: x is what it yields.  The caller is handed the
\* pointer itself, not a copy.
Extract(x, c) ==
    /\ ~panicked
    /\ call = NoCall
    /\ held' = [alias |-> TRUE, ref |-> [kind |-> "State"], val |-> x.tree]
    /\ closed' = x.closed
    /\ call' = c
    /\ prev' = state
    /\ UNCHANGED <<state, ret, panicked>>
    /\ UNCHANGED concVars

\* The facade is closed on a tree of at most MaxLeavesAtClose leaves.
DoClose ==
    /\ Leaves(state) <= MaxLeavesAtClose
    /\ Extract(Close(state, closed), [op |-> "Close"])

\* Lock, a look at the tree through the returned pointer, Unlock.
DoLock == Extract(Lock(state, closed), [op |-> "Lock"])

\* The caller of a read accessor changes the record it was handed, or the
\* caller of a write changes the object it passed in.  When that is the record
\* of the tree, the tree changes with it.
MutateReturned ==
    /\ ~panicked
    /\ call # NoCall
    /\ held # NoHeld
    /\ call.op # "MutateReturned"
    /\ held.ref.kind \notin {"LocalValue", "State"}
    /\ Seen(held, state).present
    /\ LET v == Scribble(held.ref, Seen(held, state).v)
       IN  /\ held' = [held EXCEPT !.val = Present(v)]
           /\ state' = IF held.alias THEN WriteBack(state, held.ref, v) ELSE state
    /\ prev' = state
    /\ call' = [op |-> "MutateReturned", of |-> call.op]
    /\ UNCHANGED <<ret, panicked, closed>>
    /\ UNCHANGED concVars

Next ==
    \/ DoRemoveModule
    \/ DoSetOutputValue
    \/ DoRemoveOutputValue
    \/ DoSetLocalValue
    \/ DoRemoveLocalValue
    \/ DoSetResourceProvider
    \/ DoRemoveResource
    \/ DoRemoveResourceIfEmpty
    \/ DoSetResourceInstanceCurrent
    \/ DoSetResourceInstanceDeposed
    \/ DoDeposeResourceInstanceObject
    \/ DoDeposeResourceInstanceObjectForceKey
    \/ DoForgetResourceInstanceAll
    \/ DoForgetResourceInstanceDeposed
    \/ DoMaybeRestoreResourceInstanceDeposed
    \/ DoRemovePlannedResourceInstanceObjects
    \/ DoMoveAbsResource
    \/ DoMaybeMoveAbsResource
    \/ DoMoveResourceInstance
    \/ DoMaybeMoveResourceInstance
    \/ DoMoveModuleInstance
    \/ DoMaybeMoveModuleInstance
    \/ DoModule
    \/ DoModuleOutputs
    \/ DoOutputValue
    \/ DoLocalValue
    \/ DoResource
    \/ DoResourceInstance
    \/ DoResourceInstanceObject
    \/ MutateReturned
    \/ Return

Spec == Init /\ [][Next]_vars

\* The facade up to and after Close: Spec is the life of a facade that is
\* never closed.
NextClose ==
    \/ Next
    \/ DoClose
    \/ DoLock

SpecClose == Init /\ [][NextClose]_vars

\* The callers of a configuration whose providers are instantiated with
\* for_each: SetResourceInstanceCurrent is passed the instance key of the
\* provider, or NoKey.  The calls are those that write, depose and scan.
KeyedProviderKeys == {NoKey, "k1"}

DoSetResourceInstanceCurrentKeyed ==
    \E addr \in AbsResourceInstances, obj \in Objects \cup {NilObject},
       provider \in Providers, providerKey \in KeyedProviderKeys :
        Write(SetResourceInstanceCurrent(state, addr, obj, provider, providerKey),
              [op |-> "SetResourceInstanceCurrent", addr |-> addr, obj |-> obj,
               provider |-> provider, providerKey |-> providerKey],
              [kind |-> "ResourceInstanceObject", addr |-> addr, gen |-> NotDeposed])

NextKeys ==
    \/ DoSetResourceInstanceCurrentKeyed
    \/ DoDeposeResourceInstanceObject
    \/ DoRemovePlannedResourceInstanceObjects
    \/ Return

SpecKeys == Init /\ [][NextKeys]_vars

DoDiscardCheckResults ==
    Apply(DiscardCheckResults(state), [op |-> "DiscardCheckResults"])

DoRecordCheckResults ==
    \E checkState \in CheckStates :
        Apply(RecordCheckResults(state, checkState),
              [op |-> "RecordCheckResults", checkState |-> checkState])

\* The facade with its check results, on trees of at most MaxLeavesWithChecks
\* leaves.
NextChecks ==
    \/ Next /\ Leaves(state') <= MaxLeavesWithChecks
    \/ DoDiscardCheckResults
    \/ DoRecordCheckResults

SpecChecks == Init /\ [][NextChecks]_vars

\* -------------------------------------------------------------- SpecConc
\* NumCallers goroutines call one facade method each on the same SyncState.
\* A method is a sequence of statements between taking and releasing
\* SyncState.lock; the callers interleave statement by statement wherever the
\* lock lets them.

ConcResourceNames == {"a", "b"}
ConcResources == [Module : {ChildModuleInstance}, Resource : ConcResourceNames]
InstanceOf(r) == [Module |-> r.Module, Resource |-> r.Resource, Key |-> 0]
ResourceOf(o) == [Module |-> o.addr.Module, Resource |-> o.addr.Resource]

ReadAccessors == {"Resource", "Module", "ResourceInstance"}
ResourceMutators ==
    {"SetResourceInstanceCurrent", "RemoveResource", "RemoveResourceIfEmpty",
     "MaybeRestoreResourceInstanceDeposed"}
IsReadAccessor(o) == o.name \in ReadAccessors

\* The calls a caller may make.
ConcOps ==
    {[name |-> "SetResourceInstanceCurrent", addr |-> InstanceOf(r), obj |-> obj,
      provider |-> "p1"] :
        r \in ConcResources, obj \in {[Status |-> ObjectReady, Attrs |-> 1], NilObject}}
    \cup {[name |-> n, addr |-> r] :
            n \in {"RemoveResource", "RemoveResourceIfEmpty"}, r \in ConcResources}
    \cup {[name |-> "MaybeRestoreResourceInstanceDeposed",
           addr |-> InstanceOf([Module |-> ChildModuleInstance, Resource |-> "a"]),
           key |-> "d1"]}
    \cup {[name |-> "SetResourceInstanceCurrent",
           addr |-> [Module |-> ChildModuleInstance, Resource |-> "a", Key |-> 1],
           obj |-> [Status |-> ObjectReady, Attrs |-> 1], provider |-> "p2"]}
    \cup {[name |-> "Resource", addr |-> r] : r \in ConcResources}
    \cup {[name |-> "Module", module |-> ChildModuleInstance]}
    \cup {[name |-> "ResourceInstance",
           addr |-> InstanceOf([Module |-> ChildModuleInstance, Resource |-> "a"])]}
    \cup {[name |-> "RemovePlannedResourceInstanceObjects"]}
    \cup {[name |-> "Lock"]}

\* The trees the callers may start from: the new tree, and what a few facade
\* calls make of it.
TreeWithEmptyResource ==
    SetResourceProvider(NewState,
        [Module |-> ChildModuleInstance, Resource |-> "a"], "p1").state
TreeWithInstance ==
    SetResourceInstanceCurrent(NewState,
        InstanceOf([Module |-> ChildModuleInstance, Resource |-> "a"]),
        [Status |-> ObjectReady, Attrs |-> 1], "p1", NoKey).state
TreeWithTwoResources ==
    SetResourceInstanceCurrent(TreeWithInstance,
        InstanceOf([Module |-> ChildModuleInstance, Resource |-> "b"]),
        [Status |-> ObjectReady, Attrs |-> 1], "p1", NoKey).state
TreeWithDeposed ==
    DeposeResourceInstanceObjectForceKey(TreeWithInstance,
        InstanceOf([Module |-> ChildModuleInstance, Resource |-> "a"]), "d1").state
TreeWithPlanned ==
    SetResourceInstanceCurrent(NewState,
        InstanceOf([Module |-> ChildModuleInstance, Resource |-> "a"]),
        [Status |-> ObjectPlanned, Attrs |-> 2], "p1", NoKey).state
ConcTrees ==
    {NewState, TreeWithEmptyResource, TreeWithInstance, TreeWithTwoResources, TreeWithDeposed,
     TreeWithPlanned}

InitConc ==
    /\ state \in ConcTrees
    /\ tree0 = state
    /\ SeqIdle
    /\ op \in [Callers -> ConcOps]
    /\ pc = [c \in Callers |-> "lock"]
    /\ cret = [c \in Callers |-> NoConcRet]
    /\ writers = {}
    /\ readers = {}
    /\ order = <<>>

\* The lock a method takes first: s.lock.RLock() in the read accessors,
\* s.lock.Lock() in everything else, Lock() itself included.
LockMode_allShared(o) == "R"

\* Mutant of LockMode: the explicit Lock takes the lock shared.
LockMode_lockShared(o) == IF o.name \in ReadAccessors \cup {"Lock"} THEN "R" ELSE "W"

LockMode(o) == IF o.name \in ReadAccessors THEN "R" ELSE "W"

\* sync.RWMutex: Lock waits until nobody holds the lock, RLock until no writer
\* holds it.
RWMutex_CanLock_ignoresReaders == writers = {}

RWMutex_CanLock_ignoresWriters == readers = {}

RWMutex_CanLock == writers = {} /\ readers = {}

\* Mutant of RWMutex_CanRLock: RLock never waits.
RWMutex_CanRLock_always == TRUE

\* Mutant of RWMutex_CanRLock: a plain mutex, one holder at a time.
RWMutex_CanRLock_exclusive == writers = {} /\ readers = {}

RWMutex_CanRLock == writers = {}

\* s.lock.Lock() / s.lock.RLock() returns to caller c.
Acquire(c) ==
    /\ pc[c] = "lock"
    /\ IF LockMode(op[c]) = "W"
       THEN RWMutex_CanLock /\ writers' = writers \cup {c} /\ readers' = readers
       ELSE RWMutex_CanRLock /\ readers' = readers \cup {c} /\ writers' = writers
    /\ pc' = [pc EXCEPT ![c] = "s1"]
    /\ order' = Append(order, c)
    /\ UNCHANGED <<state, tree0, op, cret>>
    /\ UNCHANGED seqVars

\* The deferred s.lock.Unlock() / s.lock.RUnlock(), or the caller's Unlock().
Release(c) ==
    /\ pc[c] = "unlock"
    /\ writers' = writers \ {c}
    /\ readers' = readers \ {c}
    /\ pc' = [pc EXCEPT ![c] = "done"]
    /\ UNCHANGED <<state, tree0, op, cret, order>>
    /\ UNCHANGED seqVars

\* What one statement leaves behind: the tree, the value to return, and the
\* statement that follows.
Stmt(s, r, n) == [state |-> s, ret |-> r, next |-> n]

\* ms.f(...) through a module pointer taken earlier in the method.  A module
\* that is no longer in the tree, which takes another caller inside the
\* critical section, is written to without effect on the tree.
ThroughPointer(s, addr, ms) == IF State_HasModule(s, addr) THEN WithModule(s, addr, ms) ELSE s
ModuleAt(s, addr) == IF State_HasModule(s, addr) THEN s.Modules[addr] ELSE NewModule

stmt_SetResourceInstanceCurrent(o, p, s, r) ==
    IF p = "s1" THEN Stmt(State_EnsureModule(s, o.addr.Module), r, "s2")
    ELSE IF p = "s2"
    THEN Stmt(ThroughPointer(s, o.addr.Module,
                 Module_SetResourceInstanceCurrent(ModuleAt(s, o.addr.Module),
                     o.addr.Resource, o.addr.Key, o.obj, o.provider, NoKey)),
              r, "s3")
    ELSE Stmt(maybePruneModule(s, o.addr.Module), r, "unlock")

\* Mutant of stmt_RemoveResource: the removal takes every resource of the
\* module with it.
stmt_RemoveResource_wholeModule(o, p, s, r) ==
    IF p = "s1" THEN Stmt(State_EnsureModule(s, o.addr.Module), r, "s2")
    ELSE IF p = "s2"
    THEN Stmt(ThroughPointer(s, o.addr.Module,
                 [ModuleAt(s, o.addr.Module) EXCEPT !.Resources = EmptyMap]),
              r, "s3")
    ELSE Stmt(maybePruneModule(s, o.addr.Module), r, "unlock")

stmt_RemoveResource(o, p, s, r) ==
    IF p = "s1" THEN Stmt(State_EnsureModule(s, o.addr.Module), r, "s2")
    ELSE IF p = "s2"
    THEN Stmt(ThroughPointer(s, o.addr.Module,
                 Module_RemoveResource(ModuleAt(s, o.addr.Module), o.addr.Resource)),
              r, "s3")
    ELSE Stmt(maybePruneModule(s, o.addr.Module), r, "unlock")

stmt_RemoveResourceIfEmpty(o, p, s, r) ==
    IF p = "s1"
    THEN IF ~State_HasModule(s, o.addr.Module)
         THEN Stmt(s, [r EXCEPT !.ok = TRUE], "unlock")
         ELSE Stmt(s, r, "s2")
    ELSE IF p = "s2"
    THEN IF ~State_HasResource(s, o.addr)
         THEN Stmt(s, [r EXCEPT !.ok = TRUE], "unlock")
         ELSE Stmt(s, r, "s3")
    ELSE IF p = "s3"
    THEN IF State_HasResource(s, o.addr)
            /\ DOMAIN s.Modules[o.addr.Module].Resources[o.addr.Resource].Instances # {}
         THEN Stmt(s, [r EXCEPT !.ok = FALSE], "unlock")
         ELSE Stmt(s, r, "s4")
    ELSE IF p = "s4"
    THEN Stmt(ThroughPointer(s, o.addr.Module,
                 Module_RemoveResource(ModuleAt(s, o.addr.Module), o.addr.Resource)),
              r, "s5")
    ELSE Stmt(maybePruneModule(s, o.addr.Module), [r EXCEPT !.ok = TRUE], "unlock")

stmt_MaybeRestoreResourceInstanceDeposed(o, p, s, r) ==
    IF p = "s1"
    THEN IF ~State_HasModule(s, o.addr.Module)
         THEN Stmt(s, [r EXCEPT !.ok = FALSE], "unlock")
         ELSE Stmt(s, r, "s2")
    ELSE LET x == Module_maybeRestoreResourceInstanceDeposed(ModuleAt(s, o.addr.Module),
                      o.addr.Resource, o.addr.Key, o.key)
         IN  Stmt(ThroughPointer(s, o.addr.Module, x.ms), [r EXCEPT !.ok = x.ret], "unlock")

\* The deep copy of the resource at addr, or none when it is untracked.
ResourceSnapshot(s, addr) ==
    IF State_HasResource(s, addr)
    THEN [present |-> TRUE, rs |-> s.Modules[addr.Module].Resources[addr.Resource]]
    ELSE NoSnapshot

stmt_Resource(o, p, s, r) ==
    Stmt(s, [r EXCEPT !.snap = ResourceSnapshot(s, o.addr)], "unlock")

\* The copy of the module or of the instance at the address, nil when it is
\* untracked.
stmt_Module(o, p, s, r) ==
    Stmt(s, [r EXCEPT !.snap = Module(s, o.module).val], "unlock")

stmt_ResourceInstance(o, p, s, r) ==
    Stmt(s, [r EXCEPT !.snap = ResourceInstance(s, o.addr).val], "unlock")

\* The scan of RemovePlannedResourceInstanceObjects: three nested loops over
\* the maps of the tree, run to their end with the lock held.
stmt_RemovePlannedResourceInstanceObjects(o, p, s, r) ==
    Stmt(RemovePlannedResourceInstanceObjects(s).state, r, "unlock")

\* What the holder of the explicit lock does with the tree it was handed: it
\* writes a local value into the root module.
DirectAccess(s) ==
    WithModule(s, RootModuleInstance,
               Module_SetLocalValue(s.Modules[RootModuleInstance], "loc", "v"))

stmt_Lock(o, p, s, r) == Stmt(DirectAccess(s), r, "unlock")

\* Mutant of Relocks: maybePruneModule at the end of
\* SetResourceInstanceCurrent takes the lock for writing itself.
Relocks_inPrune(o, p) == o.name = "SetResourceInstanceCurrent" /\ p = "s3"

\* Whether the statement at p of the method that o calls takes s.lock again.
\* None does: the only helper the methods share, maybePruneModule, is called
\* with the lock held and takes no lock, and the scan of
\* RemovePlannedResourceInstanceObjects calls no facade method.
Relocks(o, p) == FALSE

\* Caller c executes its next statement.  A statement that took the lock
\* again would wait for it like every other Lock().
Execute(c, r) ==
    /\ Relocks(op[c], pc[c]) => RWMutex_CanLock
    /\ state' = r.state
    /\ cret' = [cret EXCEPT ![c] = r.ret]
    /\ pc' = [pc EXCEPT ![c] = r.next]
    /\ UNCHANGED <<tree0, op, writers, readers, order>>
    /\ UNCHANGED seqVars

StepSetResourceInstanceCurrent(c) ==
    /\ op[c].name = "SetResourceInstanceCurrent"
    /\ pc[c] \in {"s1", "s2", "s3"}
    /\ Execute(c, stmt_SetResourceInstanceCurrent(op[c], pc[c], state, cret[c]))

StepRemoveResource(c) ==
    /\ op[c].name = "RemoveResource"
    /\ pc[c] \in {"s1", "s2", "s3"}
    /\ Execute(c, stmt_RemoveResource(op[c], pc[c], state, cret[c]))

StepRemoveResourceIfEmpty(c) ==
    /\ op[c].name = "RemoveResourceIfEmpty"
    /\ pc[c] \in {"s1", "s2", "s3", "s4", "s5"}
    /\ Execute(c, stmt_RemoveResourceIfEmpty(op[c], pc[c], state, cret[c]))

StepMaybeRestoreResourceInstanceDeposed(c) ==
    /\ op[c].name = "MaybeRestoreResourceInstanceDeposed"
    /\ pc[c] \in {"s1", "s2"}
    /\ Execute(c, stmt_MaybeRestoreResourceInstanceDeposed(op[c], pc[c], state, cret[c]))

StepResource(c) ==
    /\ op[c].name = "Resource"
    /\ pc[c] = "s1"
    /\ Execute(c, stmt_Resource(op[c], pc[c], state, cret[c]))

StepModule(c) ==
    /\ op[c].name = "Module"
    /\ pc[c] = "s1"
    /\ Execute(c, stmt_Module(op[c], pc[c], state, cret[c]))

StepResourceInstance(c) ==
    /\ op[c].name = "ResourceInstance"
    /\ pc[c] = "s1"
    /\ Execute(c, stmt_ResourceInstance(op[c], pc[c], state, cret[c]))

StepRemovePlannedResourceInstanceObjects(c) ==
    /\ op[c].name = "RemovePlannedResourceInstanceObjects"
    /\ pc[c] = "s1"
    /\ Execute(c, stmt_RemovePlannedResourceInstanceObjects(op[c], pc[c], state, cret[c]))

StepLock(c) ==
    /\ op[c].name = "Lock"
    /\ pc[c] = "s1"
    /\ Execute(c, stmt_Lock(op[c], pc[c], state, cret[c]))

NextConc ==
    \E c \in Callers :
        \/ Acquire(c)
        \/ StepSetResourceInstanceCurrent(c)
        \/ StepRemoveResource(c)
        \/ StepRemoveResourceIfEmpty(c)
        \/ StepMaybeRestoreResourceInstanceDeposed(c)
        \/ StepResource(c)
        \/ StepModule(c)
        \/ StepResourceInstance(c)
        \/ StepRemovePlannedResourceInstanceObjects(c)
        \/ StepLock(c)
        \/ Release(c)

SpecConc == InitConc /\ [][NextConc]_vars

\* Caller c executes a statement of its method between taking the lock and
\* releasing it.
Running(c) ==
    \/ StepSetResourceInstanceCurrent(c)
    \/ StepRemoveResource(c)
    \/ StepRemoveResourceIfEmpty(c)
    \/ StepMaybeRestoreResourceInstanceDeposed(c)
    \/ StepResource(c)
    \/ StepModule(c)
    \/ StepResourceInstance(c)
    \/ StepRemovePlannedResourceInstanceObjects(c)
    \/ StepLock(c)

\* The callers under a fair scheduler.  The Go runtime runs every goroutine
\* that stays runnable, so a caller that can execute its next statement or
\* its deferred unlock does so, and sync.RWMutex wakes a waiting Lock() or
\* RLock() once the lock stays free for it.  For the holder of the explicit
\* lock the fairness of Release is the caller's duty to call Unlock().
LiveConc ==
    /\ SpecConc
    /\ \A c \in Callers :
         /\ WF_vars(Acquire(c))
         /\ WF_vars(Running(c))
         /\ WF_vars(Release(c))

\* The statement at p of the method that o calls.
Statement(o, p, s, r) ==
    IF o.name = "SetResourceInstanceCurrent" THEN stmt_SetResourceInstanceCurrent(o, p, s, r)
    ELSE IF o.name = "RemoveResource" THEN stmt_RemoveResource(o, p, s, r)
    ELSE IF o.name = "RemoveResourceIfEmpty" THEN stmt_RemoveResourceIfEmpty(o, p, s, r)
    ELSE IF o.name = "MaybeRestoreResourceInstanceDeposed"
    THEN stmt_MaybeRestoreResourceInstanceDeposed(o, p, s, r)
    ELSE IF o.name = "Resource" THEN stmt_Resource(o, p, s, r)
    ELSE IF o.name = "Module" THEN stmt_Module(o, p, s, r)
    ELSE IF o.name = "ResourceInstance" THEN stmt_ResourceInstance(o, p, s, r)
    ELSE IF o.name = "RemovePlannedResourceInstanceObjects"
    THEN stmt_RemovePlannedResourceInstanceObjects(o, p, s, r)
    ELSE stmt_Lock(o, p, s, r)

\* The statements of one call from p on, with no other caller in between.
RECURSIVE RunToUnlock(_, _, _, _)
RunToUnlock(o, p, s, r) ==
    IF p = "unlock" THEN [state |-> s, ret |-> r]
    ELSE LET x == Statement(o, p, s, r)
         IN  RunToUnlock(o, x.next, x.state, x.ret)

\* The same call run alone on tree s.
Atomic(o, s) == RunToUnlock(o, "s1", s, NoConcRet)

\* The calls of the callers in ord, run one after the other from tree s.
RECURSIVE SerialRun(_, _, _)
SerialRun(s, ord, rets) ==
    IF ord = <<>> THEN [state |-> s, rets |-> rets]
    ELSE LET a == Atomic(op[Head(ord)], s)
         IN  SerialRun(a.state, Tail(ord), [rets EXCEPT ![Head(ord)] = a.ret])

Serial(ord) == SerialRun(tree0, ord, [c \in Callers |-> NoConcRet])

\* Every order in which all callers can take the lock.
Orders == {o \in [1..NumCallers -> Callers] : \A i, j \in 1..NumCallers : o[i] = o[j] => i = j}

InCriticalSection(c) == pc[c] \in {"s1", "s2", "s3", "s4", "s5", "unlock"}
AllDone == \A c \in Callers : pc[c] = "done"



\* ------------------------------------------------------- claims under Spec

\* The instance at addr in tree s; NewResourceInstance when it is untracked.
InstanceAt(s, addr) ==
    IF State_HasInstance(s, addr)
    THEN s.Modules[addr.Module].Resources[addr.Resource].Instances[addr.Key]
    ELSE NewResourceInstance

\* The instances of the resource at addr in tree s (none when untracked).
InstancesAt(s, addr) ==
    IF State_HasResource(s, addr)
    THEN s.Modules[addr.Module].Resources[addr.Resource].Instances
    ELSE EmptyMap

\* C1: after every completed facade call, every non-root module in the tree
\* holds at least one resource, output value or local value.
C1_PruningInvariant ==
    ~panicked =>
        \A a \in DOMAIN state.Modules :
            IsRoot(a) \/ ~Module_empty(state.Modules[a])

\* RemovePlannedResourceInstanceObjects took the last content out of the
\* child module and pruned it.
C1_Witness ==
    /\ call.op = "RemovePlannedResourceInstanceObjects"
    /\ State_HasModule(prev, ChildModuleInstance)
    /\ ~State_HasModule(state, ChildModuleInstance)

\* C2: after every completed facade call the root module has an entry in the
\* tree, whatever its content.
C2_RootAlwaysPresent ==
    ~panicked => State_HasModule(state, RootModuleInstance)

\* A removal emptied the root module, and the root module is still there.
C2_Witness ==
    /\ call.op \in {"RemoveOutputValue", "RemoveResource", "ForgetResourceInstanceAll",
                    "RemovePlannedResourceInstanceObjects", "MoveAbsResource"}
    /\ ~Module_empty(prev.Modules[RootModuleInstance])
    /\ State_HasModule(state, RootModuleInstance)
    /\ Module_empty(state.Modules[RootModuleInstance])

\* C7: RemoveResourceIfEmpty returns true exactly when the resource is absent
\* on return, which is when its module or the resource itself was untracked or
\* the resource had no instance; when it returns false the resource has an
\* instance and the tree is the tree before the call.
C7_RemoveResourceIfEmptyResult ==
    call.op = "RemoveResourceIfEmpty" =>
        /\ ret.ok <=> ~State_HasResource(state, call.addr)
        /\ ret.ok <=> DOMAIN InstancesAt(prev, call.addr) = {}
        /\ ~ret.ok => /\ state = prev
                      /\ DOMAIN InstancesAt(state, call.addr) # {}

\* RemoveResourceIfEmpty removed a tracked resource that had no instance.
C7_Witness ==
    /\ call.op = "RemoveResourceIfEmpty"
    /\ ret.ok
    /\ State_HasResource(prev, call.addr)
    /\ ~State_HasResource(state, call.addr)

\* The resource at addr has exactly one instance, which holds no current
\* object and exactly one deposed object.
OnlyOneDeposedObject(s, addr) ==
    /\ State_HasInstance(s, addr)
    /\ DOMAIN InstancesAt(s, ContainingResource(addr)) = {addr.Key}
    /\ InstanceAt(s, addr).Current = NilObject
    /\ Cardinality(DOMAIN InstanceAt(s, addr).Deposed) = 1

\* C8: on a resource whose only instance holds only a deposed object,
\* RemoveResourceIfEmpty returns false and changes nothing; once
\* ForgetResourceInstanceDeposed has removed that object, RemoveResourceIfEmpty
\* on the resource returns true.
C8_DeposedOnlyThenForgotten ==
    /\ (/\ call.op = "RemoveResourceIfEmpty"
        /\ \E k \in InstanceKeys :
             OnlyOneDeposedObject(prev, [Module |-> call.addr.Module,
                                         Resource |-> call.addr.Resource, Key |-> k]))
       => (~ret.ok /\ state = prev)
    /\ (/\ call.op = "ForgetResourceInstanceDeposed"
        /\ OnlyOneDeposedObject(prev, call.addr)
        /\ call.key \in DOMAIN InstanceAt(prev, call.addr).Deposed)
       => /\ RemoveResourceIfEmpty(state, ContainingResource(call.addr)).ok
          /\ ~State_HasResource(state, ContainingResource(call.addr))

\* The deposed object of such a resource has just been forgotten.
C8_Witness ==
    /\ call.op = "ForgetResourceInstanceDeposed"
    /\ OnlyOneDeposedObject(prev, call.addr)
    /\ call.key \in DOMAIN InstanceAt(prev, call.addr).Deposed
    /\ RemoveResourceIfEmpty(prev, ContainingResource(call.addr)).ok = FALSE

\* C9: MaybeRestoreResourceInstanceDeposed on an instance that has a current
\* object returns false and leaves the tree, so the current object and the
\* deposed object under its key, as they were.
C9_NonDestructiveRestore ==
    (/\ call.op = "MaybeRestoreResourceInstanceDeposed"
     /\ ~panicked
     /\ InstanceAt(prev, call.addr).Current # NilObject)
    => /\ ~ret.ok
       /\ InstanceAt(state, call.addr).Current = InstanceAt(prev, call.addr).Current
       /\ InstanceAt(state, call.addr).Deposed = InstanceAt(prev, call.addr).Deposed
       /\ state = prev

\* The restore was asked for a deposed object of an instance that has a
\* current object as well.
C9_Witness ==
    /\ call.op = "MaybeRestoreResourceInstanceDeposed"
    /\ InstanceAt(prev, call.addr).Current # NilObject
    /\ call.key \in DOMAIN InstanceAt(prev, call.addr).Deposed

\* C10: MaybeRestoreResourceInstanceDeposed returns true exactly when the
\* instance was tracked, had no current object and had a deposed object under
\* the key; then that object is the current object, the key has left the
\* deposed set and nothing else has changed.  Otherwise nothing changes.
C10_RestoreResult ==
    (call.op = "MaybeRestoreResourceInstanceDeposed" /\ ~panicked) =>
        LET before == InstanceAt(prev, call.addr)
            can == /\ State_HasInstance(prev, call.addr)
                   /\ before.Current = NilObject
                   /\ call.key \in DOMAIN before.Deposed
        IN  /\ ret.ok <=> can
            /\ ~ret.ok => state = prev
            /\ ret.ok =>
                 /\ InstanceAt(state, call.addr).Current = before.Deposed[call.key]
                 /\ InstanceAt(state, call.addr).Deposed = Del(before.Deposed, call.key)
                 /\ state = WithModule(prev, call.addr.Module,
                      [prev.Modules[call.addr.Module] EXCEPT
                         !.Resources[call.addr.Resource].Instances[call.addr.Key] =
                            InstanceAt(state, call.addr)])

\* A restore was refused because the key names no deposed object of the
\* instance, which has another one and no current object.
C10_Witness ==
    /\ call.op = "MaybeRestoreResourceInstanceDeposed"
    /\ ~panicked
    /\ ~ret.ok
    /\ InstanceAt(prev, call.addr).Current = NilObject
    /\ DOMAIN InstanceAt(prev, call.addr).Deposed # {}
    /\ call.key \notin DOMAIN InstanceAt(prev, call.addr).Deposed

\* --------------------------------------------------- claims under SpecConc

\* C3: while a mutating method or the holder of the explicit lock is inside
\* its critical section no other caller is inside one; two callers are inside
\* together only when both are read accessors.  A mutator holds the lock
\* exclusively and a read accessor holds it shared for the whole section.
C3_MutualExclusion ==
    /\ \A c, d \in Callers :
         (c # d /\ InCriticalSection(c) /\ InCriticalSection(d))
            => (IsReadAccessor(op[c]) /\ IsReadAccessor(op[d]))
    /\ \A c \in Callers :
         InCriticalSection(c) =>
            IF IsReadAccessor(op[c]) THEN c \in readers /\ writers = {}
            ELSE writers = {c} /\ readers = {}

\* A mutator is between two of its statements while a read accessor waits for
\* the lock.
C3_Witness ==
    \E c, d \in Callers :
        /\ ~IsReadAccessor(op[c])
        /\ pc[c] \in {"s2", "s3"}
        /\ IsReadAccessor(op[d])
        /\ pc[d] = "lock"

C5_DisjointResourcesCommute ==
    (/\ AllDone
     /\ \A c \in Callers : op[c].name \in ResourceMutators
     /\ \A c, d \in Callers : c # d => ResourceOf(op[c]) # ResourceOf(op[d]))
    => \A o \in Orders : Serial(o).state = state

\* Mutations of two resources of one module are done; one of them created
\* the module, which was untracked before, and another one found nothing to
\* keep in it.
C5_Witness ==
    /\ AllDone
    /\ \A c \in Callers : op[c].name \in ResourceMutators
    /\ \A c, d \in Callers : c # d => ResourceOf(op[c]) # ResourceOf(op[d])
    /\ ~State_HasModule(tree0, ChildModuleInstance)
    /\ State_HasModule(state, ChildModuleInstance)
    /\ \E c \in Callers : op[c].name \in {"RemoveResource", "RemoveResourceIfEmpty"}

\* Caller c took the lock before caller d.
Before(c, d) ==
    \E i, j \in 1..Len(order) : i < j /\ order[i] = c /\ order[j] = d

\* C6: when RemoveResourceIfEmpty is about to remove the resource, having
\* found it without instances, the resource has no instance and the caller
\* holds the lock exclusively.  When it has run next to a
\* SetResourceInstanceCurrent that writes an object into the same resource,
\* with no other mutation of that resource around, the written object is in
\* the tree at the end, and the removal has returned false if the write took
\* the lock first.
C6_AtomicCheckAndRemove ==
    /\ \A c \in Callers :
         (op[c].name = "RemoveResourceIfEmpty" /\ pc[c] = "s4")
         => /\ DOMAIN InstancesAt(state, op[c].addr) = {}
            /\ writers = {c}
    /\ \A c, d \in Callers :
         (/\ AllDone
          /\ op[c].name = "RemoveResourceIfEmpty"
          /\ op[d].name = "SetResourceInstanceCurrent"
          /\ op[d].obj # NilObject
          /\ ResourceOf(op[d]) = op[c].addr
          /\ \A e \in Callers \ {c, d} :
               op[e].name \in ResourceMutators => ResourceOf(op[e]) # op[c].addr)
         => /\ InstanceAt(state, op[d].addr).Current = op[d].obj
            /\ Before(d, c) => ~cret[c].ok

\* RemoveResourceIfEmpty took the lock first and removed the resource, which
\* had no instance; the SetResourceInstanceCurrent that waited for the lock
\* has put the resource back with its object.
C6_Witness ==
    \E c, d \in Callers :
        /\ AllDone
        /\ op[c].name = "RemoveResourceIfEmpty"
        /\ op[d].name = "SetResourceInstanceCurrent"
        /\ op[d].obj # NilObject
        /\ ResourceOf(op[d]) = op[c].addr
        /\ State_HasResource(tree0, op[c].addr)
        /\ Before(c, d)
        /\ cret[c].ok
        /\ InstanceAt(state, op[d].addr).Current = op[d].obj

\* --------------------------------------------- claims under Spec, continued

\* C11: when DeposeResourceInstanceObject has deposed the current object of an
\* instance without deposed objects, MaybeRestoreResourceInstanceDeposed with
\* the returned key, called next, returns true and gives back the tree as it
\* was before the depose.
C11_DeposeRestoreRoundTrip ==
    (/\ call.op = "DeposeResourceInstanceObject"
     /\ InstanceAt(prev, call.addr).Current # NilObject
     /\ DOMAIN InstanceAt(prev, call.addr).Deposed = {})
    => /\ ret.key # NotDeposed
       /\ MaybeRestoreResourceInstanceDeposed(state, call.addr, ret.key).ok
       /\ ~MaybeRestoreResourceInstanceDeposed(state, call.addr, ret.key).panic
       /\ MaybeRestoreResourceInstanceDeposed(state, call.addr, ret.key).state = prev

\* The only object of an instance has just been deposed.
C11_Witness ==
    /\ call.op = "DeposeResourceInstanceObject"
    /\ InstanceAt(prev, call.addr).Current # NilObject
    /\ DOMAIN InstanceAt(prev, call.addr).Deposed = {}
    /\ InstanceAt(state, call.addr).Current = NilObject
    /\ ret.key \in DOMAIN InstanceAt(state, call.addr).Deposed

\* C12: a key returned by DeposeResourceInstanceObject, unless it is
\* NotDeposed, was not a deposed key of the instance before the call, and the
\* deposed objects the instance had are all still there, unchanged, next to
\* the new one.
C12_KeyUniqueness ==
    (call.op = "DeposeResourceInstanceObject" /\ ret.key # NotDeposed)
    => LET before == InstanceAt(prev, call.addr).Deposed
           after == InstanceAt(state, call.addr).Deposed
       IN  /\ ret.key \notin DOMAIN before
           /\ DOMAIN after = DOMAIN before \cup {ret.key}
           /\ \A k \in DOMAIN before : after[k] = before[k]

\* A depose on an instance that already had a deposed object.
C12_Witness ==
    /\ call.op = "DeposeResourceInstanceObject"
    /\ ret.key # NotDeposed
    /\ DOMAIN InstanceAt(prev, call.addr).Deposed # {}

\* C13: when DeposeResourceInstanceObject returns a key other than
\* NotDeposed, the instance has no current object, its deposed object under
\* the key is the object that was current, and its other deposed objects and
\* the rest of the tree are as before.
C13_DeposeEffect ==
    (call.op = "DeposeResourceInstanceObject" /\ ret.key # NotDeposed)
    => LET before == InstanceAt(prev, call.addr)
       IN  /\ State_HasInstance(prev, call.addr)
           /\ before.Current # NilObject
           /\ InstanceAt(state, call.addr).Current = NilObject
           /\ ret.key \in DOMAIN InstanceAt(state, call.addr).Deposed
           /\ InstanceAt(state, call.addr).Deposed[ret.key] = before.Current
           /\ state = WithModule(prev, call.addr.Module,
                [prev.Modules[call.addr.Module] EXCEPT
                   !.Resources[call.addr.Resource].Instances[call.addr.Key] =
                      [Current |-> NilObject,
                       Deposed |-> Put(before.Deposed, ret.key, before.Current)]])

\* A depose has returned a key, on a tree that holds something else as well.
C13_Witness ==
    /\ call.op = "DeposeResourceInstanceObject"
    /\ ret.key # NotDeposed
    /\ Leaves(prev) > 1

\* C14: DeposeResourceInstanceObject returns NotDeposed and leaves the tree
\* as it was when the module, the resource or the instance is untracked or
\* the instance has no current object; DeposeResourceInstanceObjectForceKey
\* with a key on an untracked module changes nothing either.
C14_DeposeNothingToDo ==
    /\ (/\ call.op = "DeposeResourceInstanceObject"
        /\ InstanceAt(prev, call.addr).Current = NilObject)
       => (ret.key = NotDeposed /\ state = prev /\ ~panicked)
    /\ (/\ call.op = "DeposeResourceInstanceObjectForceKey"
        /\ call.key # NotDeposed
        /\ ~State_HasModule(prev, call.addr.Module))
       => (state = prev /\ ~panicked)

\* A depose was asked for an instance of a module that is not tracked.
C14_Witness ==
    /\ call.op = "DeposeResourceInstanceObject"
    /\ ~State_HasModule(prev, call.addr.Module)
    /\ ret.key = NotDeposed

\* The read accessors that hand out a copy of a record of the tree.
CopyingAccessors ==
    {"Module", "ModuleOutputs", "OutputValue", "Resource", "ResourceInstance",
     "ResourceInstanceObject"}

\* The trees that one later write through the facade can make of tree s.
LaterWrites(s) ==
    {RemoveModule(s, ChildModuleInstance).state}
    \cup {SetOutputValue(s, a, ov).state : a \in AbsOutputValues, ov \in OutputValues}
    \cup {RemoveOutputValue(s, a).state : a \in AbsOutputValues}
    \cup {SetResourceProvider(s, a, p).state : a \in AbsResources, p \in Providers}
    \cup {RemoveResource(s, a).state : a \in AbsResources}
    \cup {SetResourceInstanceCurrent(s, a, o, p, NoKey).state :
            a \in AbsResourceInstances, o \in Objects \cup {NilObject}, p \in Providers}
    \cup UNION {{DeposeResourceInstanceObject(s, a, k).state :
                    k \in DeposedKeys \ DeposedKeysOf(s, a)} : a \in AbsResourceInstances}
    \cup {ForgetResourceInstanceAll(s, a).state : a \in AbsResourceInstances}
    \cup {RemovePlannedResourceInstanceObjects(s).state}

\* C15 (isolation of reads): what Module, ModuleOutputs, OutputValue,
\* Resource, ResourceInstance and ResourceInstanceObject return is a deep
\* copy.  When the caller changes the returned record, the tree is unchanged
\* and the same read repeated returns the record as it was; and no later
\* write through the facade changes a record that was returned earlier.
C15_IsolationOfReads ==
    /\ (call.op = "MutateReturned" /\ call.of \in CopyingAccessors) =>
            /\ state = prev
            /\ Deref(state, held.ref) = Deref(prev, held.ref)
    /\ (call.op \in CopyingAccessors) =>
            /\ held.val = Deref(state, held.ref)
            /\ \A s2 \in LaterWrites(state) : Seen(held, s2) = held.val

C15_Witness ==
    /\ call.op = "MutateReturned"
    /\ call.of = "ResourceInstanceObject"
    /\ held.val # Deref(state, held.ref)
    /\ \E s2 \in LaterWrites(state) : Deref(s2, held.ref) # Deref(state, held.ref)

\* Whether the address that call c names is tracked in tree s.
Tracked(s, c) ==
    IF c.op = "RemoveModule" THEN State_HasModule(s, c.addr)
    ELSE IF c.op = "RemoveResource" THEN State_HasResource(s, c.addr)
    ELSE IF c.op = "ForgetResourceInstanceAll" THEN State_HasInstance(s, c.addr)
    ELSE IF c.op = "ForgetResourceInstanceDeposed"
    THEN State_HasInstance(s, c.addr) /\ c.key \in DeposedKeysOf(s, c.addr)
    ELSE IF c.op = "RemoveOutputValue" THEN Deref(s, [kind |-> "OutputValue", addr |-> c.addr]).present
    ELSE Deref(s, [kind |-> "LocalValue", addr |-> c.addr]).present

\* C16 (idempotent absence): RemoveModule, RemoveResource,
\* ForgetResourceInstanceAll, ForgetResourceInstanceDeposed, RemoveOutputValue
\* and RemoveLocalValue on an address that is not tracked complete without
\* failing and leave the tree exactly as it was; RemoveResource on a resource
\* of an untracked non-root module leaves no module behind.
C16_IdempotentAbsence ==
    (/\ call.op \in {"RemoveModule", "RemoveResource", "ForgetResourceInstanceAll",
                     "ForgetResourceInstanceDeposed", "RemoveOutputValue",
                     "RemoveLocalValue"}
     /\ ~Tracked(prev, call))
        => (~panicked /\ state = prev)

C16_Witness ==
    /\ call.op = "RemoveResource"
    /\ ~IsRoot(call.addr.Module)
    /\ ~State_HasModule(prev, call.addr.Module)
    /\ Leaves(prev) > 0
    /\ state = prev

\* The resources of tree s that have no instance.
EmptyResources(s) ==
    UNION {{[Module |-> m, Resource |-> r] :
                r \in {x \in DOMAIN s.Modules[m].Resources :
                          DOMAIN s.Modules[m].Resources[x].Instances = {}}} :
           m \in DOMAIN s.Modules}

\* C17 as stated: after every completed operation every resource of the
\* tree has at least one instance.  It does not hold: SetResourceProvider on
\* an untracked resource creates the resource record without any instance.
C17_NoEmptyResource == call # NoCall => EmptyResources(state) = {}

\* C17, amended: a resource without instances is in the tree only because
\* SetResourceProvider created it (it stays until RemoveResourceIfEmpty,
\* RemoveResource, RemoveModule or a write of an instance deals with it, and
\* a Move* carries it along); no operation leaves behind a resource whose
\* last instance it removed.
C17_EmptyResourceOnlyFromSetResourceProvider ==
    \A a \in EmptyResources(state) :
        \/ a \in EmptyResources(prev)
        \/ /\ call.op = "SetResourceProvider"
           /\ call.addr = a
           /\ ~State_HasResource(prev, a)
        \/ /\ call.op \in {"MoveAbsResource", "MaybeMoveAbsResource"}
           /\ call.src \in EmptyResources(prev)
           /\ call.dst = a
        \/ /\ call.op \in {"MoveModuleInstance", "MaybeMoveModuleInstance"}
           /\ [Module |-> call.src, Resource |-> a.Resource] \in EmptyResources(prev)
           /\ call.dst = a.Module

\* An operation removed the last instance of a resource, and the resource
\* went with it while its module stayed.
C17_Witness ==
    /\ call.op \in {"SetResourceInstanceCurrent", "ForgetResourceInstanceAll",
                    "ForgetResourceInstanceDeposed", "RemovePlannedResourceInstanceObjects"}
    /\ \E a \in AbsResources :
          /\ State_HasResource(prev, a)
          /\ Cardinality(DOMAIN prev.Modules[a.Module].Resources[a.Resource].Instances) = 1
          /\ ~State_HasResource(state, a)
    /\ EmptyResources(state) # {}

\* The tracked instances of tree s.
TrackedInstances(s) ==
    UNION {UNION {{[Module |-> m, Resource |-> r, Key |-> k] :
                       k \in DOMAIN s.Modules[m].Resources[r].Instances} :
                  r \in DOMAIN s.Modules[m].Resources} :
           m \in DOMAIN s.Modules}

\* Whether every object of instance is is a planned one.
OnlyPlannedObjects(is) ==
    /\ is.Current # NilObject => is.Current.Status = ObjectPlanned
    /\ \A dk \in DOMAIN is.Deposed : is.Deposed[dk].Status = ObjectPlanned

\* C18: after every completed facade operation every instance in the tree
\* has a current object or at least one deposed object; an operation that
\* removes the last object of an instance (SetResourceInstanceCurrent with
\* nil, SetResourceInstanceDeposed with nil, ForgetResourceInstanceDeposed,
\* ForgetResourceInstanceAll, RemovePlannedResourceInstanceObjects) removes
\* the instance in the same operation.
C18_NoEmptyInstance ==
    ~panicked =>
        /\ \A a \in TrackedInstances(state) : ResourceInstance_HasObjects(InstanceAt(state, a))
        /\ (/\ call.op = "SetResourceInstanceCurrent"
            /\ call.obj = NilObject
            /\ DOMAIN InstanceAt(prev, call.addr).Deposed = {})
               => ~State_HasInstance(state, call.addr)
        /\ (/\ call.op \in {"SetResourceInstanceDeposed", "ForgetResourceInstanceDeposed"}
            /\ call.op = "SetResourceInstanceDeposed" => call.obj = NilObject
            /\ InstanceAt(prev, call.addr).Current = NilObject
            /\ DOMAIN InstanceAt(prev, call.addr).Deposed \subseteq {call.key})
               => ~State_HasInstance(state, call.addr)
        /\ call.op = "ForgetResourceInstanceAll" => ~State_HasInstance(state, call.addr)
        /\ call.op = "RemovePlannedResourceInstanceObjects" =>
               \A a \in TrackedInstances(prev) :
                   OnlyPlannedObjects(InstanceAt(prev, a)) => ~State_HasInstance(state, a)

\* The last object of an instance was removed while another instance of the
\* resource stayed.
C18_Witness ==
    /\ ~panicked
    /\ call.op \in {"SetResourceInstanceCurrent", "SetResourceInstanceDeposed",
                    "ForgetResourceInstanceDeposed", "RemovePlannedResourceInstanceObjects"}
    /\ \E a \in TrackedInstances(prev) :
          /\ ~State_HasInstance(state, a)
          /\ State_HasResource(state, ContainingResource(a))

\* C19: SetResourceInstanceCurrent with a nil object removes the instance if
\* and only if the instance has no deposed object; on an instance with one
\* deposed generation it removes only the current object: the instance, its
\* resource and its module stay tracked and the deposed object is unchanged.
C19_NilCurrentKeepsDeposed ==
    (call.op = "SetResourceInstanceCurrent" /\ call.obj = NilObject) =>
        LET before == InstanceAt(prev, call.addr)
            after == InstanceAt(state, call.addr)
        IN  /\ ~panicked
            /\ ~State_HasInstance(state, call.addr) <=> DOMAIN before.Deposed = {}
            /\ Cardinality(DOMAIN before.Deposed) = 1 =>
                  /\ State_HasModule(state, call.addr.Module)
                  /\ State_HasResource(state, ContainingResource(call.addr))
                  /\ State_HasInstance(state, call.addr)
                  /\ after.Current = NilObject
                  /\ after.Deposed = before.Deposed

C19_Witness ==
    /\ call.op = "SetResourceInstanceCurrent"
    /\ call.obj = NilObject
    /\ ~IsRoot(call.addr.Module)
    /\ InstanceAt(prev, call.addr).Current # NilObject
    /\ Cardinality(DOMAIN InstanceAt(prev, call.addr).Deposed) = 1
    /\ State_HasInstance(state, call.addr)

\* C20: SetOutputValue is an upsert that creates the module when untracked.
\* Afterwards OutputValue(addr) returns exactly the written value, flag and
\* message, whatever was stored before; when the module was not tracked,
\* Module(addr.Module) afterwards returns a module that holds exactly that
\* one output and nothing else.  SetLocalValue does the same for local values.
C20_SetValueUpsert ==
    /\ call.op = "SetOutputValue" =>
          /\ ~panicked
          /\ OutputValue(state, call.addr).val = Present(call.value)
          /\ ~State_HasModule(prev, call.addr.Module) =>
                Module(state, call.addr.Module).val =
                    Present([NewModule EXCEPT
                                !.OutputValues = Put(EmptyMap, call.addr.Name, call.value)])
    /\ call.op = "SetLocalValue" =>
          /\ ~panicked
          /\ LocalValue(state, call.addr).val = Present(call.value)
          /\ ~State_HasModule(prev, call.addr.Module) =>
                Module(state, call.addr.Module).val =
                    Present([NewModule EXCEPT
                                !.LocalValues = Put(EmptyMap, call.addr.Name, call.value)])

\* An output value is overwritten by a different one.
C20_Witness ==
    /\ call.op = "SetOutputValue"
    /\ OutputValue(prev, call.addr).val.present
    /\ OutputValue(prev, call.addr).val # Present(call.value)
    /\ OutputValue(state, call.addr).val = Present(call.value)

\* An output value written to an untracked module creates the module.
C20_WitnessCreate ==
    /\ call.op = "SetOutputValue"
    /\ ~State_HasModule(prev, call.addr.Module)
    /\ Module(state, call.addr.Module).val.present

C23_SentinelKeyIsFatal ==
    (/\ call.op \in {"DeposeResourceInstanceObjectForceKey",
                     "MaybeRestoreResourceInstanceDeposed"}
     /\ call.key = NotDeposed)
        => (panicked /\ state = prev)

C23_Witness ==
    /\ call.op = "MaybeRestoreResourceInstanceDeposed"
    /\ call.key = NotDeposed
    /\ ~State_HasModule(prev, call.addr.Module)
    /\ Leaves(prev) > 0
    /\ panicked

\* C24 (no partial failure): for every facade operation that ends in a fatal
\* programming error the tree at the moment of the abort equals the tree
\* before the call; no module that the operation created is left in the tree.
\* It does not hold: SetResourceInstanceDeposed creates the module with
\* EnsureModule before the write that aborts, and the pruning call that
\* follows the write is never reached.
C24_NoPartialFailure == panicked => state = prev

\* What is left behind by an aborted call is that one empty module, and only
\* after SetResourceInstanceDeposed on a resource of an untracked module.
C24_OnlyEnsuredModuleRemains ==
    (panicked /\ state # prev) =>
        /\ call.op = "SetResourceInstanceDeposed"
        /\ ~State_HasModule(prev, call.addr.Module)
        /\ state = State_EnsureModule(prev, call.addr.Module)

\* C25: Close returns the underlying tree and invalidates the facade for
\* good.  After Close has returned, no later facade operation reads or
\* modifies the returned tree: Lock and a second Close yield nil, every later
\* read or write is a programming error (it aborts), and the returned tree is
\* never changed through the facade again.
C25_CloseInvalidates ==
    [][/\ call'.op = "Close" =>
             /\ closed'
             /\ state' = state
             /\ ~closed => held'.val = Present(state)
       /\ closed =>
             /\ closed'
             /\ state' = state
             /\ ~held'.val.present
             /\ call'.op \notin {"none", "Close", "Lock"} => panicked'
      ]_vars

C25_Witness ==
    /\ closed
    /\ panicked
    /\ call.op = "SetResourceInstanceCurrent"
    /\ call.obj # NilObject
    /\ Leaves(state) > 0

\* Whether instance is holds a planned object, current or deposed.
HasPlannedObject(is) ==
    \/ is.Current # NilObject /\ is.Current.Status = ObjectPlanned
    \/ \E dk \in DOMAIN is.Deposed : is.Deposed[dk].Status = ObjectPlanned

\* C26: after RemovePlannedResourceInstanceObjects has returned, no object
\* with status planned exists anywhere in the tree, neither as the current
\* nor as a deposed object of any instance of any resource of any module,
\* whichever modules were pruned during the scan.
C26_NoPlannedObjectLeft ==
    call.op = "RemovePlannedResourceInstanceObjects" =>
        /\ ~panicked
        /\ \A a \in TrackedInstances(state) : ~HasPlannedObject(InstanceAt(state, a))

\* The scan met a planned deposed object in a module that it then pruned,
\* and a planned current object in another module.
C26_Witness ==
    /\ call.op = "RemovePlannedResourceInstanceObjects"
    /\ \E a \in TrackedInstances(prev) :
          /\ ~IsRoot(a.Module)
          /\ \E dk \in DOMAIN InstanceAt(prev, a).Deposed :
                InstanceAt(prev, a).Deposed[dk].Status = ObjectPlanned
          /\ ~State_HasModule(state, a.Module)
    /\ \E a \in TrackedInstances(prev) :
          /\ IsRoot(a.Module)
          /\ InstanceAt(prev, a).Current # NilObject
          /\ InstanceAt(prev, a).Current.Status = ObjectPlanned

\* --------------------------------------------------- claims under SpecChecks

\* C27: check results are replaced wholesale.  After RecordCheckResults(new)
\* the check results of the tree are exactly the snapshot built from new and
\* nothing of the results recorded before remains; after DiscardCheckResults
\* the tree has no check results; neither operation changes a module, a
\* resource, an output value or a local value.
C27_CheckResultsReplaced ==
    /\ call.op = "RecordCheckResults" =>
          /\ ~panicked
          /\ state.CheckResults = NewCheckResults(call.checkState)
          /\ DOMAIN state.CheckResults.ConfigResults = DOMAIN call.checkState
          /\ state.Modules = prev.Modules
    /\ call.op = "DiscardCheckResults" =>
          /\ ~panicked
          /\ state.CheckResults = NilCheckResults
          /\ state.Modules = prev.Modules

\* Results are recorded over earlier results that mention another object.
C27_Witness ==
    /\ call.op = "RecordCheckResults"
    /\ ~prev.CheckResults.nil
    /\ DOMAIN prev.CheckResults.ConfigResults = {"c1"}
    /\ DOMAIN call.checkState = {"c2"}
    /\ Leaves(prev) > 0

\* --------------------------------------------- claims under Spec, continued

\* The tracked resources of tree s, and the record of a tracked resource.
TrackedResources(s) ==
    UNION {{[Module |-> m, Resource |-> r] : r \in DOMAIN s.Modules[m].Resources} :
           m \in DOMAIN s.Modules}

ResourceAt(s, addr) == s.Modules[addr.Module].Resources[addr.Resource]

\* The output values and local values of module m in tree s.
ValuesAt(s, m) ==
    IF State_HasModule(s, m)
    THEN [OutputValues |-> s.Modules[m].OutputValues, LocalValues |-> s.Modules[m].LocalValues]
    ELSE [OutputValues |-> EmptyMap, LocalValues |-> EmptyMap]

\* Whether the move that ran last took place.
Moved(kind) ==
    \/ call.op = "Move" \o kind /\ ~panicked
    \/ call.op = "MaybeMove" \o kind /\ ~panicked /\ ret.ok

\* C28: a successful move (MoveAbsResource, MoveResourceInstance,
\* MoveModuleInstance, or a Maybe variant that returns true) relocates the
\* record: afterwards the source address is untracked, the destination holds
\* exactly the record that was at the source (instances, current and deposed
\* objects), and every record at any other address is unchanged.
C28_MoveRelocates ==
    /\ Moved("AbsResource") =>
          /\ ~State_HasResource(state, call.src)
          /\ State_HasResource(state, call.dst)
          /\ ResourceAt(state, call.dst) = ResourceAt(prev, call.src)
          /\ TrackedResources(state) \ {call.dst} = TrackedResources(prev) \ {call.src}
          /\ \A a \in TrackedResources(state) \ {call.dst} :
                ResourceAt(state, a) = ResourceAt(prev, a)
          /\ \A m \in AllModuleAddrs : ValuesAt(state, m) = ValuesAt(prev, m)
          /\ state.CheckResults = prev.CheckResults
    /\ Moved("ResourceInstance") =>
          /\ ~State_HasInstance(state, call.src)
          /\ State_HasInstance(state, call.dst)
          /\ InstanceAt(state, call.dst) = InstanceAt(prev, call.src)
          /\ TrackedInstances(state) \ {call.dst} = TrackedInstances(prev) \ {call.src}
          /\ \A a \in TrackedInstances(state) \ {call.dst} :
                InstanceAt(state, a) = InstanceAt(prev, a)
          /\ \A m \in AllModuleAddrs : ValuesAt(state, m) = ValuesAt(prev, m)
          /\ state.CheckResults = prev.CheckResults
    /\ Moved("ModuleInstance") =>
          /\ ~State_HasModule(state, call.src)
          /\ State_HasModule(state, call.dst)
          /\ state.Modules[call.dst] = prev.Modules[call.src]
          /\ DOMAIN state.Modules \ {call.dst} = DOMAIN prev.Modules \ {call.src}
          /\ \A m \in DOMAIN state.Modules \ {call.dst} : state.Modules[m] = prev.Modules[m]
          /\ state.CheckResults = prev.CheckResults

\* An instance with a current and a deposed object was moved to another key
\* of its resource.
C28_Witness ==
    /\ call.op = "MoveResourceInstance"
    /\ ~panicked
    /\ call.src.Module = call.dst.Module
    /\ InstanceAt(prev, call.src).Current # NilObject
    /\ DOMAIN InstanceAt(prev, call.src).Deposed # {}
    /\ State_HasInstance(state, call.dst)

\* Whether the source of the move that ran last was tracked before it.
SourceTracked ==
    IF call.op \in {"MoveAbsResource", "MaybeMoveAbsResource"}
    THEN State_HasResource(prev, call.src)
    ELSE IF call.op \in {"MoveResourceInstance", "MaybeMoveResourceInstance"}
    THEN State_HasInstance(prev, call.src)
    ELSE State_HasModule(prev, call.src)

DestinationTracked ==
    IF call.op \in {"MoveAbsResource", "MaybeMoveAbsResource"}
    THEN State_HasResource(state, call.dst)
    ELSE IF call.op \in {"MoveResourceInstance", "MaybeMoveResourceInstance"}
    THEN State_HasInstance(state, call.dst)
    ELSE State_HasModule(state, call.dst)

\* C29: when the source address is not tracked, MaybeMoveAbsResource,
\* MaybeMoveResourceInstance and MaybeMoveModuleInstance return false and
\* leave the tree unchanged, while MoveAbsResource, MoveResourceInstance and
\* MoveModuleInstance treat the missing source as an error and create nothing
\* at the destination.
C29_MoveOfMissingSource ==
    /\ (/\ call.op \in {"MaybeMoveAbsResource", "MaybeMoveResourceInstance",
                        "MaybeMoveModuleInstance"}
        /\ ~SourceTracked)
           => (~panicked /\ ~ret.ok /\ state = prev)
    /\ (/\ call.op \in {"MoveAbsResource", "MoveResourceInstance", "MoveModuleInstance"}
        /\ ~SourceTracked)
           => (panicked /\ ~DestinationTracked /\ state = prev)

C29_Witness ==
    /\ call.op = "MaybeMoveAbsResource"
    /\ ~SourceTracked
    /\ ~ret.ok
    /\ ~panicked
    /\ Leaves(prev) > 0

\* -------------------------------------------------- claims under LiveConc

\* C30: as long as a call has not returned some caller can take a step, so no
\* reachable state is a deadlock, and under fair scheduling every call that
\* waits for the lock, whether it is a mutator, a read accessor, the scan of
\* RemovePlannedResourceInstanceObjects or the explicit Lock followed by its
\* Unlock, eventually returns.
C30_DeadlockFreeAndTerminating ==
    /\ [](~AllDone => ENABLED NextConc)
    /\ \A c \in Callers : (pc[c] = "lock") ~> (pc[c] = "done")

\* The scan of RemovePlannedResourceInstanceObjects has waited for the holder
\* of the explicit lock, has then taken the planned object out of the tree,
\* and both calls have returned.
C30_Witness ==
    /\ AllDone
    /\ \E c, d \in Callers :
         /\ op[c].name = "Lock"
         /\ op[d].name = "RemovePlannedResourceInstanceObjects"
         /\ order = <<c, d>>
    /\ tree0 = TreeWithPlanned
    /\ ~State_HasModule(state, ChildModuleInstance)

\* Caller c is between the return of its Lock() and its Unlock().
HoldsExplicitLock(c) == op[c].name = "Lock" /\ pc[c] \in {"s1", "unlock"}

\* C31: while a caller is between the return of Lock() and its Unlock(), no
\* operation of another caller, read or write, is inside its critical section
\* or enters it, so every step, and with it every change of the tree, is the
\* lock holder's own; once the holder has called Unlock and nobody else holds
\* the lock, every operation that waited can take it.
C31_ExplicitLockExcludes ==
    /\ [](\A c \in Callers : HoldsExplicitLock(c) =>
            /\ writers = {c} /\ readers = {}
            /\ \A d \in Callers \ {c} : ~InCriticalSection(d))
    /\ [][\A c \in Callers : HoldsExplicitLock(c) =>
            /\ \A d \in Callers \ {c} : pc'[d] = pc[d] /\ cret'[d] = cret[d]
            /\ state' # state => (pc[c] = "s1" /\ state' = DirectAccess(state))
         ]_vars
    /\ [](\A c, d \in Callers :
            (/\ op[c].name = "Lock" /\ pc[c] = "done"
             /\ pc[d] = "lock"
             /\ \A e \in Callers : ~InCriticalSection(e))
            => ENABLED Acquire(d))

\* The holder of the explicit lock has written to the tree and not yet called
\* Unlock, while a read accessor waits for the lock.
C31_Witness ==
    \E c, d \in Callers :
        /\ HoldsExplicitLock(c)
        /\ pc[c] = "unlock"
        /\ state # tree0
        /\ op[d].name = "Resource"
        /\ pc[d] = "lock"

\* ------------------------------------------------ more claims under Spec

ReadAccessorNames ==
    {"Module", "ModuleOutputs", "OutputValue", "LocalValue", "Resource",
     "ResourceInstance", "ResourceInstanceObject"}

\* Whether what the read c asks for is tracked in tree s.
ReadTargetTracked(s, c) ==
    IF c.op = "Module" THEN State_HasModule(s, c.addr)
    ELSE IF c.op = "ModuleOutputs" THEN CallInstances(s, c.addr, c.name) # {}
    ELSE IF c.op = "OutputValue"
    THEN State_HasModule(s, c.addr.Module)
         /\ c.addr.Name \in DOMAIN s.Modules[c.addr.Module].OutputValues
    ELSE IF c.op = "LocalValue"
    THEN State_HasModule(s, c.addr.Module)
         /\ c.addr.Name \in DOMAIN s.Modules[c.addr.Module].LocalValues
    ELSE IF c.op = "Resource" THEN State_HasResource(s, c.addr)
    ELSE IF c.op = "ResourceInstance" THEN State_HasInstance(s, c.addr)
    ELSE /\ State_HasInstance(s, c.addr)
         /\ IF c.key = NotDeposed THEN InstanceAt(s, c.addr).Current # NilObject
            ELSE c.key \in DOMAIN InstanceAt(s, c.addr).Deposed

\* The result of a read that found nothing: nil, or no output values at all.
IsAbsentResult(h) ==
    IF h.ref.kind = "ModuleOutputs" THEN h.val.present /\ DOMAIN h.val.v = {}
    ELSE ~h.val.present

\* C32: a read accessor never changes the tree; for an address that is not
\* tracked it completes without failing, returns the absent result, and the
\* tree tracks no module, resource or instance that it did not track before.
C32_ReadAccessorsArePure ==
    call.op \in ReadAccessorNames =>
        /\ state = prev
        /\ ~ReadTargetTracked(prev, call) =>
              /\ ~panicked
              /\ IsAbsentResult(held)
              /\ ~ReadTargetTracked(state, call)
        /\ ReadTargetTracked(prev, call) => ~IsAbsentResult(held)

\* ResourceInstanceObject was asked for a deposed object of an instance in a
\* module that is not tracked, on a tree that tracks something else.
C32_Witness ==
    /\ call.op = "ResourceInstanceObject"
    /\ call.key # NotDeposed
    /\ ~State_HasModule(prev, call.addr.Module)
    /\ IsAbsentResult(held)
    /\ Leaves(state) > 0

\* The number of objects instance is holds, current and deposed.
ObjectCount(is) ==
    (IF is.Current # NilObject THEN 1 ELSE 0) + Cardinality(DOMAIN is.Deposed)

GenerationOps ==
    {"SetResourceInstanceCurrent", "DeposeResourceInstanceObject",
     "DeposeResourceInstanceObjectForceKey", "MaybeRestoreResourceInstanceDeposed"}

\* C35: every tracked instance has one current slot, which holds an object or
\* nothing, and each of its deposed keys maps to one object, never to nothing.
\* A depose or a restore moves an object between the current slot and a
\* deposed key and never duplicates it: the instance holds as many objects
\* after the call as before, after a depose the current slot is empty, and
\* after a restore the restored key has left the deposed set.  A write of the
\* current object leaves the deposed objects as they were.
C35_AtMostOneCurrent ==
    /\ \A a \in AbsResourceInstances :
         State_HasInstance(state, a) =>
            /\ InstanceAt(state, a).Current \in Objects \cup {NilObject}
            /\ \A dk \in DOMAIN InstanceAt(state, a).Deposed :
                 /\ dk \in DeposedKeys
                 /\ InstanceAt(state, a).Deposed[dk] \in Objects
    /\ (call.op \in GenerationOps /\ ~panicked) =>
         LET was == InstanceAt(prev, call.addr)
             is == InstanceAt(state, call.addr)
         IN  IF call.op = "SetResourceInstanceCurrent"
             THEN is.Current = call.obj /\ is.Deposed = was.Deposed
             ELSE /\ ObjectCount(is) = ObjectCount(was)
                  /\ call.op # "MaybeRestoreResourceInstanceDeposed" =>
                        /\ is.Current = NilObject
                        /\ was.Current # NilObject =>
                              \E dk \in DOMAIN is.Deposed \ DOMAIN was.Deposed :
                                  is.Deposed = Put(was.Deposed, dk, was.Current)
                  /\ (call.op = "MaybeRestoreResourceInstanceDeposed" /\ ret.ok) =>
                        /\ call.key \notin DOMAIN is.Deposed
                        /\ is.Current = was.Deposed[call.key]

\* A deposed object was restored as the current object of an instance that
\* has another deposed object.
C35_Witness ==
    /\ call.op = "MaybeRestoreResourceInstanceDeposed"
    /\ ret.ok
    /\ InstanceAt(state, call.addr).Current # NilObject
    /\ DOMAIN InstanceAt(state, call.addr).Deposed # {}

\* Whether obj is an object that is not a planned one.
IsRealObject(obj) == obj # NilObject /\ obj.Status # ObjectPlanned

\* C37: after RemovePlannedResourceInstanceObjects every object that was in
\* the tree with a status other than planned is in the tree unchanged under
\* the same address and generation, every output value and local value is
\* unchanged, nothing is in the tree that was not there before, and an
\* instance, resource or module that has disappeared held nothing but planned
\* objects (and, for a module, no value and no resource that stays); the root
\* module stays.
C37_RemovesOnlyPlanned ==
    call.op = "RemovePlannedResourceInstanceObjects" =>
        /\ \A a \in TrackedInstances(prev) :
             LET was == InstanceAt(prev, a)
                 is == InstanceAt(state, a)
             IN  /\ IsRealObject(was.Current) => is.Current = was.Current
                 /\ \A dk \in DOMAIN was.Deposed :
                      IsRealObject(was.Deposed[dk]) =>
                          dk \in DOMAIN is.Deposed /\ is.Deposed[dk] = was.Deposed[dk]
                 /\ ~State_HasInstance(state, a) => OnlyPlannedObjects(was)
        /\ \A m \in DOMAIN prev.Modules \cup DOMAIN state.Modules :
             ValuesAt(state, m) = ValuesAt(prev, m)
        /\ DOMAIN state.Modules \subseteq DOMAIN prev.Modules
        /\ TrackedResources(state) \subseteq TrackedResources(prev)
        /\ \A a \in TrackedInstances(state) :
             /\ a \in TrackedInstances(prev)
             /\ InstanceAt(state, a).Current \in {NilObject, InstanceAt(prev, a).Current}
             /\ DOMAIN InstanceAt(state, a).Deposed \subseteq DOMAIN InstanceAt(prev, a).Deposed
        /\ \A r \in TrackedResources(prev) \ TrackedResources(state) :
             /\ DOMAIN ResourceAt(prev, r).Instances # {}
             /\ \A k \in DOMAIN ResourceAt(prev, r).Instances :
                  OnlyPlannedObjects(ResourceAt(prev, r).Instances[k])
        /\ \A m \in DOMAIN prev.Modules \ DOMAIN state.Modules :
             /\ ~IsRoot(m)
             /\ DOMAIN prev.Modules[m].Resources # {}
             /\ \A r \in DOMAIN prev.Modules[m].Resources :
                  [Module |-> m, Resource |-> r] \notin TrackedResources(state)

\* The scan took the planned current object of an instance and left its ready
\* deposed object.
C37_Witness ==
    /\ call.op = "RemovePlannedResourceInstanceObjects"
    /\ \E a \in TrackedInstances(state) :
          /\ InstanceAt(prev, a).Current # NilObject
          /\ InstanceAt(state, a).Current = NilObject
          /\ \E dk \in DOMAIN InstanceAt(state, a).Deposed :
                IsRealObject(InstanceAt(state, a).Deposed[dk])

\* Whether the record at the source of the move that ran last was all that
\* its module held before the move.
SourceWasLastContent ==
    LET ms == prev.Modules[call.src.Module]
    IN  /\ DOMAIN ms.OutputValues = {} /\ DOMAIN ms.LocalValues = {}
        /\ DOMAIN ms.Resources = {call.src.Resource}
        /\ Moved("ResourceInstance") =>
              DOMAIN ms.Resources[call.src.Resource].Instances = {call.src.Key}

\* C40: after a successful move of a resource or of a resource instance no
\* non-root module of the tree is empty; when the moved record was all that a
\* non-root source module held and the destination lies in another module,
\* the source module is untracked afterwards; and the destination module is
\* tracked afterwards, also when it was not tracked before.
C40_MovesKeepPruningInvariant ==
    (Moved("AbsResource") \/ Moved("ResourceInstance")) =>
        /\ \A m \in DOMAIN state.Modules : IsRoot(m) \/ ~Module_empty(state.Modules[m])
        /\ (/\ ~IsRoot(call.src.Module)
            /\ call.dst.Module # call.src.Module
            /\ SourceWasLastContent) => ~State_HasModule(state, call.src.Module)
        /\ State_HasModule(state, call.dst.Module)
        /\ IF Moved("AbsResource") THEN State_HasResource(state, call.dst)
           ELSE State_HasInstance(state, call.dst)

\* The only instance of the only resource of the child module was moved into
\* the root module, and the child module is gone.
C40_Witness ==
    /\ Moved("ResourceInstance")
    /\ ~IsRoot(call.src.Module)
    /\ IsRoot(call.dst.Module)
    /\ SourceWasLastContent
    /\ State_HasModule(prev, call.src.Module)
    /\ ~State_HasModule(state, call.src.Module)

ObjectWriters == {"SetResourceInstanceCurrent", "SetResourceInstanceDeposed"}

\* C33: after SetResourceInstanceCurrent or SetResourceInstanceDeposed has
\* stored an object, the tree holds the content that was passed in, and when
\* the caller then changes its own object the tree is unchanged and still
\* holds the content as it was passed in.
C33_WriteSideIsolation ==
    /\ (call.op \in ObjectWriters /\ call.obj # NilObject /\ ~panicked) =>
            /\ held.val = Present(call.obj)
            /\ Deref(state, held.ref) = Present(call.obj)
    /\ (call.op = "MutateReturned" /\ call.of \in ObjectWriters) =>
            /\ state = prev
            /\ held.val # Deref(state, held.ref)

\* The caller has changed the object it had passed to
\* SetResourceInstanceDeposed after that call returned.
C33_Witness ==
    /\ call.op = "MutateReturned"
    /\ call.of = "SetResourceInstanceDeposed"
    /\ held.val.v.Status = "tainted"
    /\ Deref(state, held.ref).present
    /\ Deref(state, held.ref).v.Status = ObjectPlanned

\* ------------------------------------------- more claims under SpecConc

\* Caller c writes an object with SetResourceInstanceCurrent.
WritesObject(c) == op[c].name = "SetResourceInstanceCurrent" /\ op[c].obj # NilObject

\* C34: once SetResourceInstanceCurrent has written a non-nil object, the
\* provider of the whole resource is the one passed in, whatever instances the
\* resource had before; and when two such writes to different instances of
\* one resource have run next to each other, with no other mutation of that
\* resource around, the resource has the provider of the write that took the
\* lock last and both instances hold the objects written.
C34_ProviderIsResourceWide ==
    /\ \A c \in Callers :
         (WritesObject(c) /\ pc[c] \in {"s3", "unlock"}) =>
            /\ State_HasResource(state, ResourceOf(op[c]))
            /\ ResourceAt(state, ResourceOf(op[c])).ProviderConfig = op[c].provider
            /\ InstanceAt(state, op[c].addr).Current = op[c].obj
    /\ \A c, d \in Callers :
         (/\ AllDone
          /\ WritesObject(c) /\ WritesObject(d)
          /\ ResourceOf(op[c]) = ResourceOf(op[d])
          /\ op[c].addr.Key # op[d].addr.Key
          /\ Before(c, d)
          /\ \A e \in Callers \ {c, d} :
               op[e].name \in ResourceMutators => ResourceOf(op[e]) # ResourceOf(op[c]))
         => /\ ResourceAt(state, ResourceOf(op[d])).ProviderConfig = op[d].provider
            /\ InstanceAt(state, op[c].addr).Current = op[c].obj
            /\ InstanceAt(state, op[d].addr).Current = op[d].obj

\* Two writes to the two instances of one resource with different providers
\* are done; the resource has the provider of the one that took the lock
\* last, which is not the provider that the other one passed.
C34_Witness ==
    \E c, d \in Callers :
        /\ AllDone
        /\ WritesObject(c) /\ WritesObject(d)
        /\ ResourceOf(op[c]) = ResourceOf(op[d])
        /\ op[c].addr.Key # op[d].addr.Key
        /\ op[c].provider # op[d].provider
        /\ order = <<c, d>>
        /\ State_HasInstance(state, op[c].addr)
        /\ ResourceAt(state, ResourceOf(op[c])).ProviderConfig = op[d].provider

\* Caller c is a read accessor waiting for the lock.
ReaderWaits(c) == IsReadAccessor(op[c]) /\ pc[c] = "lock"

\* C36: a read accessor that waits for the lock and cannot take it has a
\* mutator or the caller of the explicit Lock before it, holding the lock or
\* waiting for it; with nobody but read accessors holding or awaiting the
\* lock it can always take it, so read accessors do not wait for each other.
C36_ReadersShareTheLock ==
    \A c \in Callers :
        ReaderWaits(c) =>
            /\ ~ENABLED Acquire(c) =>
                  \E d \in Callers \ {c} :
                      /\ ~IsReadAccessor(op[d])
                      /\ d \in writers \/ pc[d] = "lock"
            /\ (\A d \in Callers \ {c} : IsReadAccessor(op[d]) \/ pc[d] = "done")
                  => ENABLED Acquire(c)

\* Two read accessors of different callers are inside their critical sections
\* at the same time, both holding the lock shared.
C36_Witness ==
    \E c, d \in Callers :
        /\ c # d
        /\ IsReadAccessor(op[c]) /\ IsReadAccessor(op[d])
        /\ InCriticalSection(c) /\ InCriticalSection(d)
        /\ {c, d} \subseteq readers
        /\ writers = {}

\* --------------------------------------------------- claims under SpecKeys

\* The provider configuration of every resource that the scan leaves in the
\* tree is the one it had.
C38_ProviderConfigKept ==
    call.op = "RemovePlannedResourceInstanceObjects" =>
        \A r \in TrackedResources(state) :
            /\ r \in TrackedResources(prev)
            /\ ResourceAt(state, r).ProviderConfig = ResourceAt(prev, r).ProviderConfig

\* C38: after RemovePlannedResourceInstanceObjects every resource that is
\* still in the tree has the provider configuration and the provider instance
\* key that it had before the call.
C38_ProviderAttributionKept ==
    call.op = "RemovePlannedResourceInstanceObjects" =>
        \A r \in TrackedResources(state) :
            /\ r \in TrackedResources(prev)
            /\ ResourceAt(state, r).ProviderConfig = ResourceAt(prev, r).ProviderConfig
            /\ ResourceAt(state, r).ProviderKey = ResourceAt(prev, r).ProviderKey

\* Whether the snapshot that the read accessor o returned satisfies the tree
\* invariants: a non-root module holds something, an instance has an object.
SnapshotIsConsistent(o, snap) ==
    snap.present =>
        IF o.name = "Module"
        THEN /\ IsRoot(o.module) \/ ~Module_empty(snap.v)
             /\ \A r \in DOMAIN snap.v.Resources :
                  \A k \in DOMAIN snap.v.Resources[r].Instances :
                      ObjectCount(snap.v.Resources[r].Instances[k]) > 0
        ELSE IF o.name = "Resource"
        THEN \A k \in DOMAIN snap.rs.Instances : ObjectCount(snap.rs.Instances[k]) > 0
        ELSE ObjectCount(snap.v) > 0

\* A mutator has created a module or an instance that it is going to remove
\* again before it releases the lock.
TransientState ==
    \/ /\ State_HasModule(state, ChildModuleInstance)
       /\ Module_empty(state.Modules[ChildModuleInstance])
    \/ \E a \in TrackedInstances(state) : ObjectCount(InstanceAt(state, a)) = 0

\* C39: every snapshot that Module, Resource or ResourceInstance returns
\* satisfies the tree invariants, whatever mutators run next to the reader;
\* while the tree holds a module or an instance that a mutator has created
\* and not yet pruned, that mutator holds the lock and no read accessor is
\* inside its critical section.
C39_ReadersSeeNoIntermediateState ==
    /\ \A c \in Callers :
         (IsReadAccessor(op[c]) /\ pc[c] \in {"unlock", "done"})
            => SnapshotIsConsistent(op[c], cret[c].snap)
    /\ TransientState =>
         /\ \E c \in Callers : writers = {c} /\ ~IsReadAccessor(op[c])
         /\ \A c \in Callers : IsReadAccessor(op[c]) => ~InCriticalSection(c)

\* Module has waited for the lock while RemoveResource, called for a resource
\* of the untracked child module, had created that module and not yet pruned
\* it.
C39_Witness ==
    \E c, d \in Callers :
        /\ op[c].name = "RemoveResource"
        /\ pc[c] \in {"s2", "s3"}
        /\ ~State_HasModule(tree0, ChildModuleInstance)
        /\ TransientState
        /\ op[d].name = "Module"
        /\ pc[d] = "lock"

=============================================================================
